---- MODULE Spec2Model ----
(***************************************************************************)
(* meta-tree: Field / Section / Record / Tree, their text serialisation    *)
(* (stringify) and the line parser treeFromString.                         *)
(*                                                                         *)
(* A JavaScript string is a sequence of one-character strings, so that the *)
(* serialiser and the parser work on characters as the code does.  null is *)
(* the one-element sequence NULL and undefined is UNDEFINED; neither is a  *)
(* sequence of characters.                                                 *)
(*                                                                         *)
(* The repository holds three copies of the library, which differ:         *)
(*   "src"    src/src/**           Record(entityName, propertyName, verb)  *)
(*   "esm"    dist lines 1-846     Record(.., actionName), verb derived,   *)
(*                                 flag attributes are ""                  *)
(*   "bundle" dist lines 848-1479  Record(.., actionName), verb derived by *)
(*                                 a classifier with startsWith("list")    *)
(* The variable build says which copy is loaded.                           *)
(***************************************************************************)
EXTENDS Integers, Sequences, FiniteSets, TLC

VARIABLES build,    \* which copy of the library is loaded
          tree,     \* Tree.records: the ordered map full name -> Record
          err,      \* the error the last call threw, or "none"
          call,     \* the last call: its name and its arguments
          fld,      \* SpecField: the Field under construction
          verbIn,   \* SpecVerb: the action name given to the classifier
          verbOut,  \* SpecVerb: what the classifier returned
          ps        \* SpecParse: the state of treeFromString's line loop

vars == <<build, tree, err, call, fld, verbIn, verbOut, ps>>

Builds == {"src", "esm", "bundle"}

NULL == <<"NULL">>
UNDEFINED == <<"UNDEFINED">>
Idle == <<"IDLE">>

(***************************************************************************)
(* Characters and strings                                                  *)
(***************************************************************************)
Lower == {"a","b","c","d","e","f","g","h","i","j","k","l","m",
          "n","o","p","q","r","s","t","u","v","w","x","y","z"}
Upper == {"A","B","C","D","E","F","G","H","I","J","K","L","M",
          "N","O","P","Q","R","S","T","U","V","W","X","Y","Z"}
Digit == {"0","1","2","3","4","5","6","7","8","9"}

\* \s of a JavaScript regular expression, within the characters of the model
IsWs(c) == c \in {" ", "\t", "\n", "\r", "\f"}

\* [a-zA-Z0-9_\.] (parseField) and [\w_\.] (parseSectionDeclaration)
IsNameChar(c) == c \in Lower \cup Upper \cup Digit \cup {"_", "."}

\* JavaScript truthiness of a string|null|undefined value
Truthy(s) == s # NULL /\ s # UNDEFINED /\ s # <<>>

HasWs(s) == \E i \in 1..Len(s) : IsWs(s[i])

StartsWith(s, p) == Len(s) >= Len(p) /\ SubSeq(s, 1, Len(p)) = p

\* s.slice(i) with a 1-based start
From(s, i) == SubSeq(s, i, Len(s))

RECURSIVE TrimStart(_)
TrimStart(s) == IF s # <<>> /\ IsWs(s[1]) THEN TrimStart(Tail(s)) ELSE s

RECURSIVE TrimEnd(_)
TrimEnd(s) ==
    IF s # <<>> /\ IsWs(s[Len(s)]) THEN TrimEnd(SubSeq(s, 1, Len(s) - 1)) ELSE s

\* String.prototype.trim
Trim(s) == TrimEnd(TrimStart(s))

\* the 1-based index of the first occurrence of p in s at or after i; 0 if none
RECURSIVE IndexOf(_, _, _)
IndexOf(s, p, i) ==
    IF i + Len(p) - 1 > Len(s) THEN 0
    ELSE IF SubSeq(s, i, i + Len(p) - 1) = p THEN i
    ELSE IndexOf(s, p, i + 1)

\* F(v): a let binding, with v evaluated once, where it is bound
Bind(v, F(_)) == CHOOSE r \in { F(x) : x \in {v} } : TRUE

\* String.prototype.split with a non-empty string separator
RECURSIVE Split(_, _)
Split(s, sep) ==
    Bind(IndexOf(s, sep, 1), LAMBDA k :
        IF k = 0 THEN <<s>>
        ELSE Bind(From(s, k + Len(sep)), LAMBDA rest :
                 <<SubSeq(s, 1, k - 1)>> \o Split(rest, sep)))

\* Array.prototype.join
RECURSIVE Join(_, _)
Join(parts, sep) ==
    IF parts = <<>> THEN <<>>
    ELSE IF Len(parts) = 1 THEN parts[1]
    ELSE parts[1] \o sep \o Join(Tail(parts), sep)

\* String.prototype.replace(/x/g, to) for a one-character pattern x
RECURSIVE ReplaceChar(_, _, _)
ReplaceChar(s, x, to) ==
    IF s = <<>> THEN <<>>
    ELSE (IF s[1] = x THEN to ELSE <<s[1]>>) \o ReplaceChar(Tail(s), x, to)

\* String.prototype.replace(/\r?\n/g, "\\n"): a line break becomes backslash, n
RECURSIVE ReplaceNewlines(_)
ReplaceNewlines(s) ==
    IF s = <<>> THEN <<>>
    ELSE IF Len(s) >= 2 /\ s[1] = "\r" /\ s[2] = "\n"
         THEN <<"\\", "n">> \o ReplaceNewlines(From(s, 3))
    ELSE IF s[1] = "\n" THEN <<"\\", "n">> \o ReplaceNewlines(Tail(s))
    ELSE <<s[1]>> \o ReplaceNewlines(Tail(s))

\* a template literal's rendering of a string|null value
Template(v) ==
    IF v = NULL THEN <<"n","u","l","l">>
    ELSE IF v = UNDEFINED THEN <<"u","n","d","e","f","i","n","e","d">>
    ELSE v

(***************************************************************************)
(* A JavaScript Map: a sequence of entries [k, v] in insertion order.      *)
(***************************************************************************)
EmptyMap == <<>>

MapHas(m, key) == \E i \in 1..Len(m) : m[i].k = key

MapIndex(m, key) == CHOOSE i \in 1..Len(m) : m[i].k = key

\* Map.prototype.get: undefined when the key is absent
MapGet(m, key) == IF MapHas(m, key) THEN m[MapIndex(m, key)].v ELSE UNDEFINED

\* a set that moves the key it overwrites to the end: the fault that would
\* break the order of insertion
MapSetMoving(m, key, val) ==
    Append(SelectSeq(m, LAMBDA e : e.k # key), [k |-> key, v |-> val])

\* Map.prototype.set: an existing key keeps its place, a new key goes last
MapSet(m, key, val) ==
    IF MapHas(m, key)
    THEN [m EXCEPT ![MapIndex(m, key)] = [k |-> key, v |-> val]]
    ELSE Append(m, [k |-> key, v |-> val])

\* Map.prototype.delete
MapDelete(m, key) ==
    IF MapHas(m, key)
    THEN LET i == MapIndex(m, key)
         IN  SubSeq(m, 1, i - 1) \o SubSeq(m, i + 1, Len(m))
    ELSE m

MapKeys(m) == [i \in 1..Len(m) |-> m[i].k]

MapValues(m) == [i \in 1..Len(m) |-> m[i].v]

(***************************************************************************)
(* The verb classifier                                                     *)
(***************************************************************************)
UpperSeq == <<"A","B","C","D","E","F","G","H","I","J","K","L","M",
              "N","O","P","Q","R","S","T","U","V","W","X","Y","Z">>
LowerSeq == <<"a","b","c","d","e","f","g","h","i","j","k","l","m",
              "n","o","p","q","r","s","t","u","v","w","x","y","z">>

ToLowerChar(c) ==
    IF \E i \in 1..Len(UpperSeq) : UpperSeq[i] = c
    THEN LowerSeq[CHOOSE i \in 1..Len(UpperSeq) : UpperSeq[i] = c]
    ELSE c

ToLower(s) == [i \in 1..Len(s) |-> ToLowerChar(s[i])]

v_get == <<"g","e","t">>
v_set == <<"s","e","t">>
v_add == <<"a","d","d">>
v_delete == <<"d","e","l","e","t","e">>
v_list == <<"l","i","s","t">>
v_check == <<"c","h","e","c","k">>

\* /list/i.test(s)
TestListI(s) == IndexOf(ToLower(s), v_list, 1) # 0

\* src/tools/tools.js, and the same text in the esm build
getVerbFromActionName(actionName) ==
    IF actionName = NULL THEN NULL
    ELSE IF ~Truthy(actionName) THEN NULL
    ELSE LET a == Trim(actionName)
         IN  IF StartsWith(a, v_get) THEN v_get
             ELSE IF StartsWith(a, v_set) THEN v_set
             ELSE IF StartsWith(a, v_add) THEN v_add
             ELSE IF StartsWith(a, v_delete) THEN v_delete
             ELSE IF TestListI(a) THEN v_list
             ELSE IF StartsWith(a, v_check) THEN v_check
             ELSE v_check

\* the copy in the bundle build: "list" is tested as a prefix
getVerbFromActionNameBundle(actionName) ==
    IF actionName = NULL THEN NULL
    ELSE IF ~Truthy(actionName) THEN NULL
    ELSE LET a == Trim(actionName)
         IN  IF StartsWith(a, v_get) THEN v_get
             ELSE IF StartsWith(a, v_set) THEN v_set
             ELSE IF StartsWith(a, v_add) THEN v_add
             ELSE IF StartsWith(a, v_delete) THEN v_delete
             ELSE IF StartsWith(a, v_list) THEN v_list
             ELSE IF StartsWith(a, v_check) THEN v_check
             ELSE v_check

\* the classifier of the loaded copy
Classify(b, actionName) ==
    IF b = "bundle" THEN getVerbFromActionNameBundle(actionName)
    ELSE getVerbFromActionName(actionName)

(***************************************************************************)
(* Field                                                                   *)
(***************************************************************************)
\* new Field(name, isOptional, defaultValue, description): nothing is validated
NewField(name, isOptional, defaultValue, description) ==
    [name |-> name, isOptional |-> isOptional, defaultValue |-> defaultValue,
     description |-> description, attributes |-> EmptyMap]

FieldHasAttribute(f, name) == MapHas(f.attributes, name)

\* src and bundle: attributes.get(name) || null
\* esm: null when absent, else attributes.get(name) || ""
FieldGetAttribute(b, f, name) ==
    IF b = "esm"
    THEN IF ~MapHas(f.attributes, name) THEN NULL
         ELSE IF Truthy(MapGet(f.attributes, name))
              THEN MapGet(f.attributes, name) ELSE <<>>
    ELSE IF Truthy(MapGet(f.attributes, name))
         THEN MapGet(f.attributes, name) ELSE NULL

FieldDeleteAttribute(f, name) ==
    [f EXCEPT !.attributes = MapDelete(f.attributes, name)]

\* src and bundle: setAttribute(name, value = null) stores the value as given
\* esm: setAttribute(name, value = "") stores String(value) for a non-string
FieldSetAttribute(b, f, name, value) ==
    LET stored ==
            IF b = "esm"
            THEN IF value = UNDEFINED THEN <<>> ELSE Template(value)
            ELSE IF value = UNDEFINED THEN NULL ELSE value
    IN  [f EXCEPT !.attributes = MapSet(f.attributes, name, stored)]

\* Field.#attrsToString
AttrToString(e) ==
    IF Truthy(e.v)
    THEN e.k \o <<"=", "\"">>
         \o ReplaceNewlines(ReplaceChar(ReplaceChar(e.v, "\"", <<"\\", "\"">>),
                                        "'", <<"\\", "'">>))
         \o <<"\"">>
    ELSE e.k

AttrsToString(f) ==
    Join([i \in 1..Len(f.attributes) |-> AttrToString(f.attributes[i])], <<" ">>)

\* Field.#descriptionToString and Record.#descriptionToString
DescriptionToString(description) ==
    IF ~Truthy(description) THEN <<>>
    ELSE Trim(<<"/", "/", " ">>
              \o ReplaceNewlines(ReplaceChar(description, "\"",
                                             <<"&","q","u","o","t",";">>)))

Pad4 == <<" ", " ", " ", " ">>

\* Field.stringify
FieldStringify(f) ==
    LET nameStr == IF f.isOptional
                   THEN <<"[">> \o f.name \o <<"=", "\"">>
                        \o Template(f.defaultValue) \o <<"\"", "]">>
                   ELSE f.name
    IN  Trim(nameStr \o Pad4 \o AttrsToString(f) \o <<" ">>
             \o DescriptionToString(f.description))

(***************************************************************************)
(* Section                                                                 *)
(***************************************************************************)
s_main == <<"m","a","i","n">>

\* new Section(name): [err, val]
NewSection(name) ==
    IF HasWs(name) THEN [err |-> "Section name cannot contain spaces", val |-> NULL]
    ELSE IF Len(name) = 0 THEN [err |-> "Section name cannot be empty", val |-> NULL]
    ELSE [err |-> "none", val |-> [name |-> name, fields |-> EmptyMap]]

SectionHasField(s, name) == MapHas(s.fields, name)

\* Section.addField with the set ahead of the has test: the fault that would
\* make a rejected addField leave its field behind
SectionAddFieldUnguarded(s, f) ==
    [err |-> IF SectionHasField(s, f.name) THEN "Field already exists" ELSE "none",
     val |-> [s EXCEPT !.fields = MapSet(s.fields, f.name, f)]]

\* Section.addField: [err, val]
SectionAddField(s, f) ==
    IF SectionHasField(s, f.name)
    THEN [err |-> "Field already exists", val |-> s]
    ELSE [err |-> "none", val |-> [s EXCEPT !.fields = MapSet(s.fields, f.name, f)]]

\* Section.getField
SectionGetField(s, name) ==
    IF MapHas(s.fields, name) THEN MapGet(s.fields, name) ELSE NULL

\* setField that keeps the field the section holds under the name: the fault
\* that would make it no overwrite
SectionSetFieldKeeping(s, f) ==
    IF MapHas(s.fields, f.name) THEN s
    ELSE [s EXCEPT !.fields = MapSet(s.fields, f.name, f)]

SectionSetField(s, f) == [s EXCEPT !.fields = MapSet(s.fields, f.name, f)]

SectionDeleteField(s, name) == [s EXCEPT !.fields = MapDelete(s.fields, name)]

SectionGetFields(s) == MapValues(s.fields)

\* Section.stringify with the default padding
SectionStringify(s) ==
    LET fields == Join([i \in 1..Len(s.fields) |->
                            Pad4 \o FieldStringify(s.fields[i].v)], <<"\n">>)
    IN  IF s.name = s_main THEN fields \o <<"\n">>
        ELSE Pad4 \o <<"@">> \o s.name \o <<"\n">> \o fields \o <<"\n">>

(***************************************************************************)
(* Record                                                                  *)
(***************************************************************************)
\* the fields a Record has once the name checks have passed
RecordOf(entityName, propertyName, actionName, verb, description) ==
    [entityName |-> entityName, propertyName |-> propertyName,
     actionName |-> actionName, verb |-> verb,
     sections |-> MapSet(EmptyMap, s_main, NewSection(s_main).val),
     description |-> description]

\* the checks of entityName and propertyName, common to the three copies
NameError(entityName, propertyName) ==
    IF HasWs(entityName) THEN "Entity name cannot contain spaces"
    ELSE IF Len(entityName) = 0 THEN "Entity name cannot be empty"
    ELSE IF Truthy(propertyName) /\ HasWs(propertyName)
         THEN "Property name cannot contain spaces"
    ELSE IF Truthy(propertyName) /\ Len(propertyName) = 0
         THEN "Property name cannot be empty"
    ELSE "none"

\* src/tree/record.js: new Record(entityName, propertyName, verb, description)
\* keeps the third argument as verb and has no actionName
NewRecordSrc(entityName, propertyName, verb, description) ==
    LET e == NameError(entityName, propertyName)
    IN  IF e # "none" THEN [err |-> e, val |-> NULL]
        ELSE IF Truthy(verb) /\ HasWs(verb)
             THEN [err |-> "Verb cannot contain spaces", val |-> NULL]
        ELSE [err |-> "none",
              val |-> RecordOf(entityName, propertyName, UNDEFINED, verb,
                               description)]

\* esm and bundle: new Record(entityName, propertyName, actionName, description)
\* keeps the third argument as actionName and derives verb from it
NewRecordDist(b, entityName, propertyName, actionName, description) ==
    LET e == NameError(entityName, propertyName)
    IN  IF e # "none" THEN [err |-> e, val |-> NULL]
        ELSE [err |-> "none",
              val |-> RecordOf(entityName, propertyName, actionName,
                               Classify(b, actionName), description)]

\* the Record constructor of the loaded copy: [err, val]
NewRecord(b, entityName, propertyName, third, description) ==
    IF b = "src" THEN NewRecordSrc(entityName, propertyName, third, description)
    ELSE NewRecordDist(b, entityName, propertyName, third, description)

\* Record.getFullName without the propertyName part: the fault that would
\* shorten a three part name
getFullNameShort(b, r) ==
    r.entityName
    \o (IF Truthy(IF b = "src" THEN r.verb ELSE r.actionName)
        THEN <<".">> \o (IF b = "src" THEN r.verb ELSE r.actionName) ELSE <<>>)

\* Record.getFullName: src appends this.verb, esm and bundle this.actionName
getFullName(b, r) ==
    LET third == IF b = "src" THEN r.verb ELSE r.actionName
    IN  r.entityName
        \o (IF Truthy(r.propertyName) THEN <<".">> \o r.propertyName ELSE <<>>)
        \o (IF Truthy(third) THEN <<".">> \o third ELSE <<>>)

RecordHasSection(r, name) == MapHas(r.sections, name)

\* Record.getSection
RecordGetSection(r, name) ==
    IF MapHas(r.sections, name) THEN MapGet(r.sections, name) ELSE NULL

\* addSection that hands back the section the record holds under the name: the
\* fault that would reopen a section
RecordAddSectionReopening(r, name) ==
    IF MapHas(r.sections, name) THEN [err |-> "none", val |-> r]
    ELSE IF NewSection(name).err # "none"
    THEN [err |-> NewSection(name).err, val |-> r]
    ELSE [err |-> "none",
          val |-> [r EXCEPT !.sections =
                      MapSet(r.sections, name, NewSection(name).val)]]

\* Record.addSection: [err, val]
RecordAddSection(r, name) ==
    IF MapHas(r.sections, name)
    THEN [err |-> "Section already exists", val |-> r]
    ELSE LET s == NewSection(name)
         IN  IF s.err # "none" THEN [err |-> s.err, val |-> r]
             ELSE [err |-> "none",
                   val |-> [r EXCEPT !.sections = MapSet(r.sections, name, s.val)]]

RecordDeleteSection(r, name) ==
    [r EXCEPT !.sections = MapDelete(r.sections, name)]

RecordSetSection(r, section) ==
    [r EXCEPT !.sections = MapSet(r.sections, section.name, section)]

RecordGetSections(r) == MapValues(r.sections)

\* the default parameter sectionName = "main": an omitted argument is "main"
OrMain(sectionName) == IF sectionName = UNDEFINED THEN s_main ELSE sectionName

\* the section made at the head of the record's sections: the fault that would
\* break the order of declaration
WithSectionAhead(r, sectionName) ==
    IF MapHas(r.sections, sectionName) THEN [err |-> "none", val |-> r]
    ELSE IF NewSection(sectionName).err # "none"
    THEN [err |-> NewSection(sectionName).err, val |-> r]
    ELSE [err |-> "none",
          val |-> [r EXCEPT !.sections =
                      <<[k |-> sectionName, v |-> NewSection(sectionName).val]>>
                      \o r.sections]]

\* this.sections after "if (!section) section = this.addSection(sectionName)":
\* [err, val]
WithSection(r, sectionName) ==
    IF MapHas(r.sections, sectionName) THEN [err |-> "none", val |-> r]
    ELSE RecordAddSection(r, sectionName)

\* Record.addField(field, sectionName): [err, val]
RecordAddField(r, field, sectionName) ==
    Bind(OrMain(sectionName), LAMBDA name :
    Bind(WithSection(r, name), LAMBDA made :
        IF made.err # "none" THEN made
        ELSE Bind(SectionAddField(MapGet(made.val.sections, name), field),
                  LAMBDA added :
                      [err |-> added.err,
                       val |-> [made.val EXCEPT !.sections =
                                   MapSet(made.val.sections, name,
                                          added.val)]])))

\* Record.setField(field, sectionName): [err, val]
RecordSetField(r, field, sectionName) ==
    Bind(OrMain(sectionName), LAMBDA name :
    Bind(WithSection(r, name), LAMBDA made :
        IF made.err # "none" THEN made
        ELSE [err |-> "none",
              val |-> [made.val EXCEPT !.sections =
                          MapSet(made.val.sections, name,
                                 SectionSetField(MapGet(made.val.sections,
                                                        name), field))]]))

\* Record.deleteField(name, sectionName)
RecordDeleteField(r, name, sectionName) ==
    IF ~MapHas(r.sections, OrMain(sectionName)) THEN r
    ELSE [r EXCEPT !.sections =
             MapSet(r.sections, OrMain(sectionName),
                    SectionDeleteField(MapGet(r.sections, OrMain(sectionName)),
                                       name))]

\* Record.stringify
RecordStringify(b, r) ==
    Join(<<Trim(getFullName(b, r) \o Pad4 \o DescriptionToString(r.description))>>
         \o [i \in 1..Len(r.sections) |-> SectionStringify(r.sections[i].v)],
         <<"\n">>)

(***************************************************************************)
(* Tree                                                                    *)
(***************************************************************************)
\* addRecord that takes for a duplicate only a record of the same three parts:
\* the fault that would let two records of one full name in
TreeAddRecordByParts(b, t, entityName, propertyName, third, description) ==
    Bind(NewRecord(b, entityName, propertyName, third, description), LAMBDA made :
        IF made.err # "none" THEN [err |-> made.err, val |-> t, rec |-> NULL]
        ELSE IF \E i \in 1..Len(t) :
                   /\ t[i].v.entityName = made.val.entityName
                   /\ t[i].v.propertyName = made.val.propertyName
                   /\ t[i].v.verb = made.val.verb
        THEN [err |-> "Record already exists", val |-> t, rec |-> NULL]
        ELSE [err |-> "none",
              val |-> MapSet(t, getFullName(b, made.val), made.val),
              rec |-> made.val])

\* Tree.addRecord: [err, val, rec]
TreeAddRecord(b, t, entityName, propertyName, third, description) ==
    Bind(NewRecord(b, entityName, propertyName, third, description), LAMBDA made :
        IF made.err # "none" THEN [err |-> made.err, val |-> t, rec |-> NULL]
        ELSE Bind(getFullName(b, made.val), LAMBDA fullName :
                 IF MapHas(t, fullName)
                 THEN [err |-> "Record already exists", val |-> t, rec |-> NULL]
                 ELSE [err |-> "none", val |-> MapSet(t, fullName, made.val),
                       rec |-> made.val]))

TreeHasRecord(t, fullName) == MapHas(t, fullName)

\* Tree.getRecord
TreeGetRecord(t, fullName) == IF MapHas(t, fullName) THEN MapGet(t, fullName) ELSE NULL

TreeDeleteRecord(t, fullName) == MapDelete(t, fullName)

\* Tree.setRecord keyed by the entity name: the fault that would file a record
\* under a key that is not its full name
TreeSetRecordByEntity(b, t, record) == MapSet(t, record.entityName, record)

TreeSetRecord(b, t, record) == MapSet(t, getFullName(b, record), record)

TreeGetRecordNames(t) == MapKeys(t)

TreeGetRecords(t) == MapValues(t)

\* Tree.stringify
TreeStringify(b, t) ==
    Join([i \in 1..Len(t) |-> RecordStringify(b, t[i].v)], <<"\n", "\n">>)

(***************************************************************************)
(* The parser: src/tools/treeFromString.js                                 *)
(***************************************************************************)
isSectionDeclaration(line) == StartsWith(line, <<"@">>)

\* !/^\s/.test(line) && !isSectionDeclaration(line)
isRecordDeclaration(line) ==
    ~(line # <<>> /\ IsWs(line[1])) /\ ~isSectionDeclaration(line)

IsAttrNameChar(c) == ~IsWs(c) /\ c # "="

\* the character classes of the parser's regular expressions
InClass(class, c) ==
    CASE class = "\\s" -> IsWs(c)
      [] class = "[^\\s]" -> ~IsWs(c)
      [] class = "[^\\s=]" -> IsAttrNameChar(c)
      [] class = "[\\s=]" -> ~IsAttrNameChar(c)
      [] class = "[\\w_\\.]" -> IsNameChar(c)

\* the index after the longest run of characters of the class from i on
RECURSIVE RunEnd(_, _, _)
RunEnd(s, i, class) ==
    IF i <= Len(s) /\ InClass(class, s[i]) THEN RunEnd(s, i + 1, class) ELSE i

\* parseRecordDeclaration: the line is not blank
parseRecordDeclaration(line0) ==
    Bind(Trim(line0), LAMBDA line :
    Bind(Split(SubSeq(line, 1, RunEnd(line, 1, "[^\\s]") - 1), <<".">>),
         LAMBDA nameParts :
    Bind(Split(line, <<"/", "/">>), LAMBDA bySlashes :
    Bind(Tail(nameParts), LAMBDA rest :
        [entityName |-> nameParts[1],
         propertyName |-> IF Len(rest) > 1
                          THEN Join(SubSeq(rest, 1, Len(rest) - 1), <<".">>)
                          ELSE NULL,
         actionName |-> IF rest # <<>> THEN rest[Len(rest)] ELSE NULL,
         description |-> IF Len(bySlashes) >= 2 THEN Trim(bySlashes[2])
                         ELSE NULL]))))

\* parseSectionDeclaration: line.match(/^@([\w_\.]+)/), null without a match
parseSectionDeclaration(line) ==
    LET e == RunEnd(line, 2, "[\\w_\\.]")
    IN  IF StartsWith(line, <<"@">>) /\ e > 2 THEN SubSeq(line, 2, e - 1) ELSE NULL

\* "(?:\\"|[^"])*" from i on, the opening quote q already matched: the index
\* after the closing quote the backtracking matcher settles on, 0 if it fails
RECURSIVE QuotedEnd(_, _, _)
QuotedEnd(s, i, q) ==
    IF i > Len(s) THEN 0
    ELSE IF s[i] = q THEN i + 1
    ELSE IF s[i] = "\\" /\ i + 1 <= Len(s) /\ s[i + 1] = q
         THEN Bind(QuotedEnd(s, i + 2, q), LAMBDA r : IF r # 0 THEN r ELSE i + 2)
    ELSE QuotedEnd(s, i + 1, q)

\* one match of attrRegex whose name starts at p:
\* (\$?[^\s=]+)(?:\s*=\s*("(?:\\"|[^"])*"|'(?:\\'|[^'])*'|\$?[^\s]*)|$)?
AttrMatch(s, p) ==
    Bind(RunEnd(s, p, "[^\\s=]"), LAMBDA ne :
    Bind(RunEnd(s, ne, "\\s"), LAMBDA eq :
        IF eq <= Len(s) /\ s[eq] = "="
        THEN Bind(RunEnd(s, eq + 1, "\\s"), LAMBDA q :
             Bind(IF q <= Len(s) /\ s[q] \in {"\"", "'"}
                  THEN QuotedEnd(s, q + 1, s[q]) ELSE 0, LAMBDA quoted :
             Bind(IF quoted # 0 THEN quoted ELSE RunEnd(s, q, "[^\\s]"),
                  LAMBDA ve :
                 [index |-> p, name |-> SubSeq(s, p, ne - 1),
                  raw |-> SubSeq(s, q, ve - 1), end |-> ve])))
        ELSE [index |-> p, name |-> SubSeq(s, p, ne - 1),
              raw |-> UNDEFINED, end |-> ne]))

\* rawValue.slice(1, -1).replace(/\\(["'])/g, "$1")
RECURSIVE Unescape(_)
Unescape(s) ==
    IF s = <<>> THEN <<>>
    ELSE IF Len(s) >= 2 /\ s[1] = "\\" /\ s[2] \in {"\"", "'"}
         THEN <<s[2]>> \o Unescape(From(s, 3))
    ELSE <<s[1]>> \o Unescape(Tail(s))

\* match[2] taken as it stands: the fault that would leave the quotes on a value
AttrValueQuoted(raw) == IF ~Truthy(raw) THEN NULL ELSE raw

\* the value parseHtmlAttributes takes from match[2]
AttrValue(raw) ==
    IF ~Truthy(raw) THEN NULL
    ELSE IF (raw[1] = "\"" /\ raw[Len(raw)] = "\"")
            \/ (raw[1] = "'" /\ raw[Len(raw)] = "'")
         THEN Unescape(SubSeq(raw, 2, Len(raw) - 1))
    ELSE raw

DigitVal(c) == CHOOSE d \in 0..9 : ToString(d) = c

\* a < b for two strings of digits of the same length
RECURSIVE DigitsLess(_, _)
DigitsLess(a, b) ==
    IF a = <<>> THEN FALSE
    ELSE IF a[1] # b[1] THEN DigitVal(a[1]) < DigitVal(b[1])
    ELSE DigitsLess(Tail(a), Tail(b))

\* a < b for two canonical decimal numerals
NumLess(a, b) == Len(a) < Len(b) \/ (Len(a) = Len(b) /\ DigitsLess(a, b))

\* 2^32 - 1, the first integer that is no array index
n_2_32_1 == <<"4","2","9","4","9","6","7","2","9","5">>

\* a property key that is an array index: such keys are listed first, ascending
IsArrayIndex(key) ==
    /\ key # <<>>
    /\ \A i \in 1..Len(key) : key[i] \in Digit
    /\ (Len(key) = 1 \/ key[1] # "0")
    /\ NumLess(key, n_2_32_1)

s_proto == <<"_","_","p","r","o","t","o","_","_">>

\* obj[key] = val on a plain object, obj given as its Object.entries
ObjSet(obj, key, val) ==
    IF key = s_proto THEN obj
    ELSE IF MapHas(obj, key) THEN MapSet(obj, key, val)
    ELSE IF IsArrayIndex(key)
         THEN LET before == SelectSeq(obj, LAMBDA e :
                                IsArrayIndex(e.k) /\ NumLess(e.k, key))
                  after == SelectSeq(obj, LAMBDA e :
                                ~(IsArrayIndex(e.k) /\ NumLess(e.k, key)))
              IN  before \o <<[k |-> key, v |-> val]>> \o after
    ELSE Append(obj, [k |-> key, v |-> val])

\* the loop with no break at "//": the comment is taken and the scan goes on,
\* the fault that would make attributes of the words of a description
RECURSIVE AttrLoopOn(_, _, _, _)
AttrLoopOn(b, s, li, attributes) ==
    Bind(RunEnd(s, li, "[\\s=]"), LAMBDA p :
        IF p > Len(s) THEN [attributes |-> attributes, comment |-> NULL]
        ELSE Bind(AttrMatch(s, p), LAMBDA m :
            IF StartsWith(m.name, <<"/", "/">>)
            THEN Bind(Trim(From(s, m.index + 2)), LAMBDA c :
                     [attributes |-> AttrLoopOn(b, s, m.end, attributes).attributes,
                      comment |-> IF c = <<>> THEN NULL ELSE c])
            ELSE Bind(AttrValue(m.raw), LAMBDA value :
                     AttrLoopOn(b, s, m.end,
                                ObjSet(attributes, m.name,
                                       IF b = "esm" /\ value = NULL THEN <<>>
                                       ELSE value)))))

\* the while loop of parseHtmlAttributes, attrRegex.lastIndex = li
RECURSIVE AttrLoop(_, _, _, _)
AttrLoop(b, s, li, attributes) ==
    Bind(RunEnd(s, li, "[\\s=]"), LAMBDA p :
        IF p > Len(s) THEN [attributes |-> attributes, comment |-> NULL]
        ELSE Bind(AttrMatch(s, p), LAMBDA m :
            IF StartsWith(m.name, <<"/", "/">>)
            THEN Bind(Trim(From(s, m.index + 2)), LAMBDA c :
                     [attributes |-> attributes,
                      comment |-> IF c = <<>> THEN NULL ELSE c])
            ELSE Bind(AttrValue(m.raw), LAMBDA value :
                     AttrLoop(b, s, m.end,
                              ObjSet(attributes, m.name,
                                     IF b = "esm" /\ value = NULL THEN <<>>
                                     ELSE value)))))

\* parseHtmlAttributes: [attributes, comment]
parseHtmlAttributes(b, inputString) == AttrLoop(b, inputString, 1, EmptyMap)

RECURSIVE SetAttributes(_, _, _)
SetAttributes(b, f, entries) ==
    IF entries = <<>> THEN f
    ELSE SetAttributes(b, FieldSetAttribute(b, f, entries[1].k, entries[1].v),
                       Tail(entries))

\* parseField from "let field = new Field(...)" on: [err, val]
FieldFrom(b, fieldName, isOptional, defaultValue, attrsStr) ==
    Bind(parseHtmlAttributes(b, attrsStr), LAMBDA tail :
        [err |-> "none",
         val |-> [SetAttributes(b, NewField(fieldName, isOptional, defaultValue,
                                            NULL), tail.attributes)
                  EXCEPT !.description = tail.comment]])

\* parseField without its test of end === -1, so that line.slice(1, -1) is
\* taken for the bracket's content: the fault that would let an unclosed
\* bracket through
parseFieldUnclosed(b, line) ==
    IF StartsWith(line, <<"[">>)
    THEN Bind(IndexOf(line, <<"]">>, 1), LAMBDA end :
        Bind(parseHtmlAttributes(b, IF end = 0 THEN SubSeq(line, 2, Len(line) - 1)
                                    ELSE SubSeq(line, 2, end - 1)).attributes,
             LAMBDA attrs :
            IF attrs = <<>>
            THEN [err |-> "TypeError: undefined is not iterable", val |-> NULL]
            ELSE FieldFrom(b, attrs[1].k, TRUE, attrs[1].v,
                           Trim(From(line, end + 1)))))
    ELSE Bind(RunEnd(line, 1, "[\\w_\\.]"), LAMBDA ne :
        IF ne = 1 THEN [err |-> "Invalid field", val |-> NULL]
        ELSE Bind(ne <= Len(line) /\ line[ne] = "?", LAMBDA isOptional :
            FieldFrom(b, SubSeq(line, 1, ne - 1), isOptional, NULL,
                      Trim(From(line, ne + (IF isOptional THEN 1 ELSE 0))))))

\* parseField: [err, val]
parseField(b, line) ==
    IF StartsWith(line, <<"[">>)
    THEN Bind(IndexOf(line, <<"]">>, 1), LAMBDA end :
        IF end = 0 THEN [err |-> "Invalid field", val |-> NULL]
        ELSE Bind(parseHtmlAttributes(b, SubSeq(line, 2, end - 1)).attributes,
                  LAMBDA attrs :
            IF attrs = <<>>
            THEN [err |-> "TypeError: undefined is not iterable", val |-> NULL]
            ELSE FieldFrom(b, attrs[1].k, TRUE, attrs[1].v,
                           Trim(From(line, end + 1)))))
    ELSE Bind(RunEnd(line, 1, "[\\w_\\.]"), LAMBDA ne :
        IF ne = 1 THEN [err |-> "Invalid field", val |-> NULL]
        ELSE Bind(ne <= Len(line) /\ line[ne] = "?", LAMBDA isOptional :
            FieldFrom(b, SubSeq(line, 1, ne - 1), isOptional, NULL,
                      Trim(From(line, ne + (IF isOptional THEN 1 ELSE 0))))))

\* treeFromString before its first line
ParseStart(text) ==
    [lines |-> Split(text, <<"\n">>), i |-> 1, tree |-> EmptyMap,
     currentRecord |-> NULL, currentSectionName |-> s_main, err |-> "none"]

ParseDone(st) == st.err # "none" \/ st.i > Len(st.lines)

\* a record line that leaves currentSectionName as it is: the fault that would
\* route the fields of a record by a header of the record before it
ParseRecordLineCarrying(b, st, line) ==
    Bind(parseRecordDeclaration(line), LAMBDA d :
    Bind(TreeAddRecord(b, st.tree, d.entityName, d.propertyName, d.actionName,
                       d.description), LAMBDA added :
        IF added.err # "none" THEN [st EXCEPT !.err = added.err]
        ELSE [st EXCEPT !.i = st.i + 1, !.tree = added.val,
                        !.currentRecord = getFullName(b, added.rec)]))

\* a record declaration line of treeFromString
ParseRecordLine(b, st, line) ==
    Bind(parseRecordDeclaration(line), LAMBDA d :
    Bind(TreeAddRecord(b, st.tree, d.entityName, d.propertyName, d.actionName,
                       d.description), LAMBDA added :
        IF added.err # "none" THEN [st EXCEPT !.err = added.err]
        ELSE [st EXCEPT !.i = st.i + 1, !.tree = added.val,
                        !.currentRecord = getFullName(b, added.rec),
                        !.currentSectionName = s_main]))

\* a section declaration line of treeFromString, trimmed
ParseSectionLine(st, line) ==
    Bind(parseSectionDeclaration(line), LAMBDA sectionName :
        IF ~Truthy(sectionName) THEN [st EXCEPT !.i = st.i + 1]
        ELSE Bind(RecordAddSection(MapGet(st.tree, st.currentRecord), sectionName),
                  LAMBDA added :
            IF added.err # "none" THEN [st EXCEPT !.err = added.err]
            ELSE [st EXCEPT !.i = st.i + 1,
                            !.tree = MapSet(st.tree, st.currentRecord, added.val),
                            !.currentSectionName = sectionName]))

\* a field line handled by skip-and-continue: a line that fails is dropped and
\* the loop goes on, which treeFromString does not do
ParseFieldLineSkipping(b, st, line) ==
    Bind(parseField(b, line), LAMBDA field :
        IF field.err # "none" THEN [st EXCEPT !.i = st.i + 1]
        ELSE Bind(RecordAddField(MapGet(st.tree, st.currentRecord), field.val,
                                 st.currentSectionName), LAMBDA added :
            IF added.err # "none" THEN [st EXCEPT !.i = st.i + 1]
            ELSE [st EXCEPT !.i = st.i + 1,
                            !.tree = MapSet(st.tree, st.currentRecord,
                                            added.val)]))

\* a field line of treeFromString, trimmed
ParseFieldLine(b, st, line) ==
    Bind(parseField(b, line), LAMBDA field :
        IF field.err # "none" THEN [st EXCEPT !.err = field.err]
        ELSE Bind(RecordAddField(MapGet(st.tree, st.currentRecord), field.val,
                                 st.currentSectionName), LAMBDA added :
            IF added.err # "none" THEN [st EXCEPT !.err = added.err]
            ELSE [st EXCEPT !.i = st.i + 1,
                            !.tree = MapSet(st.tree, st.currentRecord,
                                            added.val)]))

\* a pass that throws at a line with no record to take it: the fault that
\* would make the lines ahead of the first record count
ParseLineOwned(b, st) ==
    Bind(st.lines[st.i], LAMBDA line :
    Bind(Trim(line), LAMBDA trimmed :
        IF trimmed = <<>> THEN [st EXCEPT !.i = st.i + 1]
        ELSE IF isRecordDeclaration(line) THEN ParseRecordLine(b, st, line)
        ELSE IF st.currentRecord = NULL THEN [st EXCEPT !.err = "No record"]
        ELSE IF isSectionDeclaration(trimmed) THEN ParseSectionLine(st, trimmed)
        ELSE ParseFieldLine(b, st, trimmed)))

\* a pass that stays on a blank line: the fault that would keep the loop from
\* its end
ParseLineStaying(b, st) ==
    Bind(st.lines[st.i], LAMBDA line :
    Bind(Trim(line), LAMBDA trimmed :
        IF trimmed = <<>> THEN st
        ELSE IF isRecordDeclaration(line) THEN ParseRecordLine(b, st, line)
        ELSE IF st.currentRecord = NULL THEN [st EXCEPT !.i = st.i + 1]
        ELSE IF isSectionDeclaration(trimmed) THEN ParseSectionLine(st, trimmed)
        ELSE ParseFieldLine(b, st, trimmed)))

\* one pass of the for loop of treeFromString, on line st.i; currentRecord is
\* held as the key of the record in tree
ParseLine(b, st) ==
    Bind(st.lines[st.i], LAMBDA line :
    Bind(Trim(line), LAMBDA trimmed :
        IF trimmed = <<>> THEN [st EXCEPT !.i = st.i + 1]
        ELSE IF isRecordDeclaration(line) THEN ParseRecordLine(b, st, line)
        ELSE IF st.currentRecord = NULL THEN [st EXCEPT !.i = st.i + 1]
        ELSE IF isSectionDeclaration(trimmed) THEN ParseSectionLine(st, trimmed)
        ELSE ParseFieldLine(b, st, trimmed)))

RECURSIVE ParseRun(_, _)
ParseRun(b, st) == IF ParseDone(st) THEN st ELSE ParseRun(b, ParseLine(b, st))

\* treeFromString: [err, tree]; a tree is returned only when err = "none"
treeFromString(b, text) ==
    LET final == ParseRun(b, ParseStart(text))
    IN  [err |-> final.err, tree |-> final.tree]

(***************************************************************************)
(* Spec: a Tree driven through its public operations                       *)
(***************************************************************************)
\* the most records, sections and fields, counted together, a tree holds
MaxNodes == 4

s_user == <<"u","s","e","r">>
s_profile == <<"p","r","o","f","i","l","e">>
s_update == <<"u","p","d","a","t","e">>
s_order == <<"o","r","d","e","r">>
s_create == <<"c","r","e","a","t","e">>
s_ping == <<"p","i","n","g">>
s_ret == <<"r","e","t">>
s_a_b == <<"a","-","b">>
s_id == <<"i","d">>
s_n == <<"n">>
s_note == <<"a"," ","n","o","t","e">>
s_a_sp_b == <<"a"," ","b">>

\* (entityName, propertyName, third argument, description) given to addRecord
\* and to new Record
RecordArgs ==
    { <<s_user, s_profile, s_update, s_note>>,
      <<s_order, NULL, s_create, NULL>>,
      <<s_ping, NULL, NULL, NULL>> }

SectionNames == {s_main, s_ret, s_a_b}

FieldNames == {s_id, s_n}

\* the fields a caller constructs
FieldPool ==
    { NewField(s_id, FALSE, NULL, NULL),
      NewField(s_id, TRUE, NULL, s_note),
      NewField(s_n, TRUE, <<"0">>, NULL) }

\* the full names a caller asks for
FullNames ==
    { <<"u","s","e","r",".","p","r","o","f","i","l","e",".","u","p","d","a","t","e">>,
      <<"o","r","d","e","r",".","c","r","e","a","t","e">>,
      s_ping }

RECURSIVE SumSeq(_)
SumSeq(q) == IF q = <<>> THEN 0 ELSE q[1] + SumSeq(Tail(q))

\* a record counts for two, itself and the main section it is made with
RecordSize(r) ==
    2 + SumSeq([j \in 1..Len(r.sections) |->
                   (IF r.sections[j].k = s_main THEN 0 ELSE 1)
                   + Len(r.sections[j].v.fields)])

TreeSize(t) == SumSeq([i \in 1..Len(t) |-> RecordSize(t[i].v)])

IdleRest == /\ fld = Idle /\ verbIn = Idle /\ verbOut = Idle /\ ps = Idle

Init ==
    /\ build \in Builds
    /\ tree = EmptyMap
    /\ err = "none"
    /\ call = [op |-> "new Tree", target |-> NULL, args |-> <<>>, ret |-> NULL]
    /\ IdleRest

Rest == UNCHANGED <<build, fld, verbIn, verbOut, ps>>

\* tree.addRecord(entityName, propertyName, third, description)
AddRecord ==
    \E a \in RecordArgs :
        LET res == TreeAddRecord(build, tree, a[1], a[2], a[3], a[4])
        IN  /\ TreeSize(res.val) <= MaxNodes
            /\ tree' = res.val
            /\ err' = res.err
            /\ call' = [op |-> "addRecord", target |-> NULL, args |-> a, ret |-> res.rec]
            /\ Rest

\* tree.setRecord(new Record(entityName, propertyName, third, description))
SetRecord ==
    \E a \in RecordArgs :
        LET made == NewRecord(build, a[1], a[2], a[3], a[4])
            res == IF made.err # "none" THEN tree
                   ELSE TreeSetRecord(build, tree, made.val)
        IN  /\ TreeSize(res) <= MaxNodes
            /\ tree' = res
            /\ err' = made.err
            /\ call' = [op |-> "setRecord", target |-> NULL, args |-> a, ret |-> made.val]
            /\ Rest

\* tree.deleteRecord(fullName)
DeleteRecord ==
    \E n \in FullNames :
        /\ tree' = TreeDeleteRecord(tree, n)
        /\ err' = "none"
        /\ call' = [op |-> "deleteRecord", target |-> NULL, args |-> <<n>>, ret |-> NULL]
        /\ Rest

\* the tree after a call on the record under key returned [err, val]
OnRecord(key, res) == MapSet(tree, key, res.val)

\* tree.getRecord(key).addSection(name)
AddSection ==
    \E i \in 1..Len(tree), n \in SectionNames :
        LET res == RecordAddSection(tree[i].v, n)
        IN  /\ TreeSize(OnRecord(tree[i].k, res)) <= MaxNodes
            /\ tree' = OnRecord(tree[i].k, res)
            /\ err' = res.err
            /\ call' = [op |-> "addSection", target |-> tree[i].k, args |-> <<n>>, ret |-> NULL]
            /\ Rest

\* tree.getRecord(key).setSection(new Section(name))
SetSection ==
    \E i \in 1..Len(tree), n \in SectionNames :
        LET res == [err |-> "none",
                    val |-> RecordSetSection(tree[i].v, NewSection(n).val)]
        IN  /\ TreeSize(OnRecord(tree[i].k, res)) <= MaxNodes
            /\ tree' = OnRecord(tree[i].k, res)
            /\ err' = "none"
            /\ call' = [op |-> "setSection", target |-> tree[i].k, args |-> <<n>>, ret |-> NULL]
            /\ Rest

\* tree.getRecord(key).deleteSection(name)
DeleteSection ==
    \E i \in 1..Len(tree), n \in SectionNames :
        /\ tree' = MapSet(tree, tree[i].k, RecordDeleteSection(tree[i].v, n))
        /\ err' = "none"
        /\ call' = [op |-> "deleteSection", target |-> tree[i].k, args |-> <<n>>, ret |-> NULL]
        /\ Rest

\* tree.getRecord(key).addField(field, sectionName)
AddField ==
    \E i \in 1..Len(tree), f \in FieldPool, n \in SectionNames :
        LET res == RecordAddField(tree[i].v, f, n)
        IN  /\ TreeSize(OnRecord(tree[i].k, res)) <= MaxNodes
            /\ tree' = OnRecord(tree[i].k, res)
            /\ err' = res.err
            /\ call' = [op |-> "addField", target |-> tree[i].k, args |-> <<f, n>>, ret |-> NULL]
            /\ Rest

\* tree.getRecord(key).setField(field, sectionName)
SetField ==
    \E i \in 1..Len(tree), f \in FieldPool, n \in SectionNames :
        LET res == RecordSetField(tree[i].v, f, n)
        IN  /\ TreeSize(OnRecord(tree[i].k, res)) <= MaxNodes
            /\ tree' = OnRecord(tree[i].k, res)
            /\ err' = res.err
            /\ call' = [op |-> "setField", target |-> tree[i].k, args |-> <<f, n>>, ret |-> NULL]
            /\ Rest

\* tree.getRecord(key).deleteField(name, sectionName)
DeleteField ==
    \E i \in 1..Len(tree), fn \in FieldNames, n \in SectionNames :
        /\ tree' = MapSet(tree, tree[i].k, RecordDeleteField(tree[i].v, fn, n))
        /\ err' = "none"
        /\ call' = [op |-> "deleteField", target |-> tree[i].k, args |-> <<fn, n>>, ret |-> NULL]
        /\ Rest

Next ==
    \/ AddRecord
    \/ SetRecord
    \/ DeleteRecord
    \/ AddSection
    \/ SetSection
    \/ DeleteSection
    \/ AddField
    \/ SetField
    \/ DeleteField

Spec == Init /\ [][Next]_vars

(***************************************************************************)
(* SpecField: one Field, built by its constructor and then changed through *)
(* setAttribute and deleteAttribute                                        *)
(***************************************************************************)
\* the most attributes a field holds
MaxAttrs == 2

a_min == <<"m","i","n">>
a_max == <<"m","a","x">>
a_x == <<"x">>

AttrNames == {a_min, a_max, a_x}

\* the values a caller passes to setAttribute; UNDEFINED is the omitted argument
AttrValues ==
    { UNDEFINED, NULL, <<>>, <<"1">>, <<"a"," ","b">>, <<"c","\\">> }

DefaultValues == {NULL, <<"0">>}

Descriptions == {NULL, s_note}

InitField ==
    /\ build \in Builds
    /\ fld \in { NewField(s_id, o, d, ds) :
                    o \in BOOLEAN, d \in DefaultValues, ds \in Descriptions }
    /\ tree = Idle /\ err = "none" /\ call = Idle
    /\ verbIn = Idle /\ verbOut = Idle /\ ps = Idle

\* field.setAttribute(name, value)
SetAttribute ==
    \E n \in AttrNames, v \in AttrValues :
        /\ Len(FieldSetAttribute(build, fld, n, v).attributes) <= MaxAttrs
        /\ fld' = FieldSetAttribute(build, fld, n, v)
        /\ UNCHANGED <<build, tree, err, call, verbIn, verbOut, ps>>

\* field.deleteAttribute(name)
DeleteAttribute ==
    \E n \in AttrNames :
        /\ fld' = FieldDeleteAttribute(fld, n)
        /\ UNCHANGED <<build, tree, err, call, verbIn, verbOut, ps>>

NextField ==
    \/ SetAttribute
    \/ DeleteAttribute

SpecField == InitField /\ [][NextField]_vars

(***************************************************************************)
(* SpecVerb: the classifier applied to one action name                     *)
(***************************************************************************)
VerbPrefixes ==
    { <<>>, v_get, v_set, v_add, v_delete, v_list, v_check, s_user,
      <<" ","g","e","t">>, <<"f","r","o","b">> }

VerbSuffixes ==
    { <<>>, <<"L","i","s","t">>, <<"L","I","S","T">>, <<"U","s","e","r">> }

ActionNames == {NULL} \cup { p \o x : p \in VerbPrefixes, x \in VerbSuffixes }

InitVerb ==
    /\ build \in Builds
    /\ verbIn \in ActionNames
    /\ verbOut = Idle
    /\ tree = Idle /\ err = "none" /\ call = Idle /\ fld = Idle /\ ps = Idle

\* getVerbFromActionName(verbIn) in the loaded copy
ClassifyVerb ==
    /\ verbOut = Idle
    /\ verbOut' = Classify(build, verbIn)
    /\ UNCHANGED <<build, tree, err, call, fld, verbIn, ps>>

NextVerb == ClassifyVerb

SpecVerb == InitVerb /\ [][NextVerb]_vars

(***************************************************************************)
(* SpecParse: treeFromString on one text, a line at a time                 *)
(***************************************************************************)
t_example ==
    <<"u","s","e","r",".","p","r","o","f","i","l","e",".","u","p","d","a","t",
      "e"," "," "," "," ","/","/"," ","U","p","d","a","t","e","s"," ","a"," ",
      "p","r","o","f","i","l","e","\n"," "," "," "," ","u","s","e","r","n",
      "a","m","e"," "," "," "," ","m","a","x","L","e","n","g","t","h","=",
      "\"","3","2","\"","\n"," "," "," "," ","p","a","s","s","w","o","r","d",
      "?","\n">>

t_port ==
    <<"n","e","t",".","o","p","e","n","\n"," "," "," "," ","[","p","o","r",
      "t","=","\"","8","0","8","0","\"","]"," ","m","i","n","=","\"","1","\"",
      " ","m","a","x","=","\"","6","5","5","3","5","\""," ","/","/"," ","P",
      "o","r","t"," ","n","u","m","b","e","r","\n"," "," "," "," ","n","a",
      "m","e","?"," ","/","/"," ","o","p","t","i","o","n","a","l"," ","f","i",
      "e","l","d","\n">>

t_sections ==
    <<"a",".","g","e","t","\n"," "," "," "," ","i","d","\n"," "," "," "," ",
      "@","r","e","t","\n"," "," "," "," ","[","n","=","\"","0","\"","]"," ",
      "x","\n","\n","b","\n"," "," "," "," ","@","r","e","t","\n"," "," "," ",
      " ","i","d","\n">>

t_dup_record ==
    <<"a","\n","b","\n","a","\n">>

t_dup_field ==
    <<"a","\n"," "," "," "," ","i","d","\n"," "," "," "," ","i","d","\n">>

t_dup_section ==
    <<"a","\n"," "," "," "," ","@","r","e","t","\n"," "," "," "," ","@","r",
      "e","t","\n">>

t_no_bracket ==
    <<"a","\n"," "," "," "," ","[","i","d","\n"," "," "," "," ","n","\n">>

t_empty_bracket ==
    <<"a","\n"," "," "," "," ","[","]","\n">>

t_no_name ==
    <<"a","\n"," "," "," "," ","?","i","d","\n">>

t_before_record ==
    <<" "," "," "," ","i","d","\n","@","r","e","t","\n"," "," "," "," ","?",
      "\n","a"," ","/","/"," ","d"," ","/","/"," ","e","\n"," "," "," "," ",
      "n"," ","2"," ","1"," ","x","=","'","'"," ","/","/"," ","c","\n">>

\* record lines of four segments, of one, with an empty segment in the middle
\* and with one at the end
t_names ==
    <<"a",".","b",".","c",".","d","\n","e","\n","a",".",".","b","\n","x",".",
      "\n">>

\* a header that names the section every record is made with
t_main_header ==
    <<"a","\n"," "," "," "," ","i","d","\n"," "," "," "," ","@","m","a","i",
      "n","\n"," "," "," "," ","n","\n">>

\* a record with a header, then a record with none
t_reset ==
    <<"a","\n"," "," "," "," ","@","r","e","t","\n"," "," "," "," ","i","d",
      "\n","b","\n"," "," "," "," ","n","\n">>

\* the shapes of a field line
t_shapes ==
    <<"a","\n"," "," "," "," ","p"," ","x","\n"," "," "," "," ","q","?"," ",
      "x","\n"," "," "," "," ","[","r","=","1","]"," ","x","\n"," "," "," ",
      " ","[","s","]","\n"," "," "," "," ","[","t","=","'","u"," ","v","'",
      "]","\n">>

\* attribute tails: a description that holds name=value, an empty one, and a
\* "//" that follows a "="
t_tail ==
    <<"a","\n"," "," "," "," ","p"," ","x","=","1"," ","/","/"," ","n","o",
      "t","e"," ","k","=","v","\n"," "," "," "," ","q"," ","x","=","1"," ",
      "/","/","\n"," "," "," "," ","r"," ","x"," ","="," ","/","/","c"," ",
      "d","\n">>

\* attribute names in other than alphabetic order, one of them twice, and
\* names made of digits
t_order ==
    <<"a","\n"," "," "," "," ","p"," ","b","=","1"," ","a","=","2"," ","b",
      "=","3","\n"," "," "," "," ","q"," ","2"," ","1"," ","x","\n">>

ParseInputs ==
    { t_order, t_tail, t_shapes, t_reset, t_main_header, t_example, t_port, t_sections, t_dup_record, t_dup_field, t_dup_section,
      t_no_bracket, t_empty_bracket, t_no_name, t_before_record, t_names }

InitParse ==
    /\ build \in Builds
    /\ ps \in { ParseStart(text) : text \in ParseInputs }
    /\ tree = Idle /\ err = "none" /\ call = Idle /\ fld = Idle
    /\ verbIn = Idle /\ verbOut = Idle

\* one pass of the line loop
ParseStep ==
    /\ ~ParseDone(ps)
    /\ ps' = ParseLine(build, ps)
    /\ UNCHANGED <<build, tree, err, call, fld, verbIn, verbOut>>

NextParse == ParseStep

SpecParse == InitParse /\ [][NextParse]_vars

\* the for loop is run to its end by the one call of treeFromString: a pass
\* that can be made is made
SpecParseFair == SpecParse /\ WF_vars(ParseStep)

(***************************************************************************)
(* SpecRecord: records made from valid and invalid names, by addRecord and *)
(* by the constructor followed by setRecord                                *)
(***************************************************************************)
\* the most records the tree of SpecRecord holds
MaxRecords == 2

s_user_update == s_user \o <<".">> \o s_update

EntityNames == {s_user, s_user_update}

PropertyNames == {NULL, <<>>, s_update}

ThirdNames == {NULL, s_update}

\* (entityName, propertyName, third argument) a caller gives: the names above
\* and names with an empty or whitespace-holding part
NamedArgs ==
    (EntityNames \X PropertyNames \X ThirdNames)
    \cup { << <<>>, NULL, NULL >>, <<s_a_sp_b, NULL, NULL>>,
           <<s_user, s_a_sp_b, NULL>> }

InitRecord ==
    /\ build \in Builds
    /\ tree = EmptyMap
    /\ err = "none"
    /\ call = [op |-> "new Tree", target |-> NULL, args |-> <<>>, ret |-> NULL]
    /\ IdleRest

\* tree.addRecord(entityName, propertyName, third)
AddRecordNamed ==
    \E n \in NamedArgs :
        LET res == TreeAddRecord(build, tree, n[1], n[2], n[3], NULL)
        IN  /\ Len(res.val) <= MaxRecords
            /\ tree' = res.val
            /\ err' = res.err
            /\ call' = [op |-> "addRecord", target |-> NULL,
                        args |-> <<n[1], n[2], n[3], NULL>>, ret |-> res.rec]
            /\ Rest

\* tree.setRecord(new Record(entityName, propertyName, third)); the
\* constructor throws before setRecord is reached
SetRecordNamed ==
    \E n \in NamedArgs :
        LET made == NewRecord(build, n[1], n[2], n[3], NULL)
            res == IF made.err # "none" THEN tree
                   ELSE TreeSetRecord(build, tree, made.val)
        IN  /\ Len(res) <= MaxRecords
            /\ tree' = res
            /\ err' = made.err
            /\ call' = [op |-> "setRecord", target |-> NULL,
                        args |-> <<n[1], n[2], n[3], NULL>>, ret |-> made.val]
            /\ Rest

\* tree.deleteRecord(fullName) of a record the tree holds
DeleteRecordNamed ==
    \E i \in 1..Len(tree) :
        /\ tree' = TreeDeleteRecord(tree, tree[i].k)
        /\ err' = "none"
        /\ call' = [op |-> "deleteRecord", target |-> NULL, args |-> <<tree[i].k>>,
                    ret |-> NULL]
        /\ Rest

NextRecord ==
    \/ AddRecordNamed
    \/ SetRecordNamed
    \/ DeleteRecordNamed

SpecRecord == InitRecord /\ [][NextRecord]_vars

(***************************************************************************)
(* SpecSection: the sections of one record, filled with fields a caller    *)
(* constructs under any name                                               *)
(***************************************************************************)
\* the most fields the record of SpecSection holds
MaxFields == 2

\* the names a caller gives to new Field
GivenFieldNames == {s_id, <<>>, s_a_sp_b}

GivenFields ==
    { NewField(n, FALSE, NULL, NULL) : n \in GivenFieldNames }
    \cup { NewField(s_id, TRUE, NULL, NULL) }

\* UNDEFINED is the omitted argument
GivenSections == {UNDEFINED, s_main, s_ret, s_a_b}

\* the fields of a record, over all its sections
FieldCount(r) == SumSeq([j \in 1..Len(r.sections) |-> Len(r.sections[j].v.fields)])

InitSection ==
    /\ build \in Builds
    /\ tree = TreeAddRecord(build, EmptyMap, s_ping, NULL, NULL, NULL).val
    /\ err = "none"
    /\ call = [op |-> "addRecord", target |-> NULL,
               args |-> <<s_ping, NULL, NULL, NULL>>,
               ret |-> TreeAddRecord(build, EmptyMap, s_ping, NULL, NULL, NULL).rec]
    /\ IdleRest

\* tree.getRecord("ping").addField(new Field(name, isOptional), sectionName)
AddFieldGiven ==
    \E f \in GivenFields, n \in GivenSections :
        /\ FieldCount(RecordAddField(tree[1].v, f, n).val) <= MaxFields
        /\ tree' = OnRecord(s_ping, RecordAddField(tree[1].v, f, n))
        /\ err' = RecordAddField(tree[1].v, f, n).err
        /\ call' = [op |-> "addField", target |-> s_ping, args |-> <<f, n>>,
                    ret |-> NULL]
        /\ Rest

\* tree.getRecord("ping").setField(new Field(name, isOptional), sectionName)
SetFieldGiven ==
    \E f \in GivenFields, n \in GivenSections :
        /\ FieldCount(RecordSetField(tree[1].v, f, n).val) <= MaxFields
        /\ tree' = OnRecord(s_ping, RecordSetField(tree[1].v, f, n))
        /\ err' = RecordSetField(tree[1].v, f, n).err
        /\ call' = [op |-> "setField", target |-> s_ping, args |-> <<f, n>>,
                    ret |-> NULL]
        /\ Rest

\* tree.getRecord("ping").deleteField(name, sectionName)
DeleteFieldGiven ==
    \E fn \in GivenFieldNames, n \in GivenSections :
        /\ tree' = MapSet(tree, s_ping, RecordDeleteField(tree[1].v, fn, n))
        /\ err' = "none"
        /\ call' = [op |-> "deleteField", target |-> s_ping, args |-> <<fn, n>>,
                    ret |-> NULL]
        /\ Rest

NextSection ==
    \/ AddFieldGiven
    \/ SetFieldGiven
    \/ DeleteFieldGiven

SpecSection == InitSection /\ [][NextSection]_vars

(***************************************************************************)
(* SpecMain: one record whose sections are added, set and deleted, "main"  *)
(* included, and filled. The Section object that the constructor puts in   *)
(* this.mainSection carries a mark, made, that no other section has: an    *)
(* operation that changes the object in place keeps the mark, and one that *)
(* puts another object under "main" does not bring it                      *)
(***************************************************************************)
\* this.mainSection = new Section("main"); this.sections.set("main",
\* this.mainSection), with the object marked
WithMainSection(r) ==
    [r EXCEPT !.sections =
        MapSet(r.sections, s_main,
               [name |-> s_main, fields |-> EmptyMap, made |-> "constructor"])]

\* the section is the object the constructor put in this.mainSection
IsMainSection(section) == "made" \in DOMAIN section

MainSectionNames == {s_main, s_ret}

InitMain ==
    /\ build \in Builds
    /\ tree = MapSet(EmptyMap, s_ping,
                     WithMainSection(NewRecord(build, s_ping, NULL, NULL, NULL).val))
    /\ err = "none"
    /\ call = [op |-> "new Record", target |-> NULL,
               args |-> <<s_ping, NULL, NULL, NULL>>, ret |-> NULL]
    /\ IdleRest

\* tree.getRecord("ping").addSection(name)
AddSectionMain ==
    \E n \in MainSectionNames :
        /\ tree' = OnRecord(s_ping, RecordAddSection(tree[1].v, n))
        /\ err' = RecordAddSection(tree[1].v, n).err
        /\ call' = [op |-> "addSection", target |-> s_ping, args |-> <<n>>,
                    ret |-> NULL]
        /\ Rest

\* tree.getRecord("ping").setSection(new Section(name))
SetSectionMain ==
    \E n \in MainSectionNames :
        /\ tree' = MapSet(tree, s_ping,
                          RecordSetSection(tree[1].v, NewSection(n).val))
        /\ err' = "none"
        /\ call' = [op |-> "setSection", target |-> s_ping, args |-> <<n>>,
                    ret |-> NULL]
        /\ Rest

\* tree.getRecord("ping").deleteSection(name)
DeleteSectionMain ==
    \E n \in MainSectionNames :
        /\ tree' = MapSet(tree, s_ping, RecordDeleteSection(tree[1].v, n))
        /\ err' = "none"
        /\ call' = [op |-> "deleteSection", target |-> s_ping, args |-> <<n>>,
                    ret |-> NULL]
        /\ Rest

\* tree.getRecord("ping").addField(field, sectionName), sectionName omitted or
\* given
AddFieldMain ==
    \E f \in FieldPool, n \in MainSectionNames \cup {UNDEFINED} :
        /\ FieldCount(RecordAddField(tree[1].v, f, n).val) <= MaxFields
        /\ tree' = OnRecord(s_ping, RecordAddField(tree[1].v, f, n))
        /\ err' = RecordAddField(tree[1].v, f, n).err
        /\ call' = [op |-> "addField", target |-> s_ping, args |-> <<f, n>>,
                    ret |-> NULL]
        /\ Rest

\* tree.getRecord("ping").setField(field, sectionName)
SetFieldMain ==
    \E f \in FieldPool, n \in MainSectionNames \cup {UNDEFINED} :
        /\ FieldCount(RecordSetField(tree[1].v, f, n).val) <= MaxFields
        /\ tree' = OnRecord(s_ping, RecordSetField(tree[1].v, f, n))
        /\ err' = RecordSetField(tree[1].v, f, n).err
        /\ call' = [op |-> "setField", target |-> s_ping, args |-> <<f, n>>,
                    ret |-> NULL]
        /\ Rest

\* tree.getRecord("ping").deleteField(name, sectionName)
DeleteFieldMain ==
    \E fn \in FieldNames, n \in MainSectionNames \cup {UNDEFINED} :
        /\ tree' = MapSet(tree, s_ping, RecordDeleteField(tree[1].v, fn, n))
        /\ err' = "none"
        /\ call' = [op |-> "deleteField", target |-> s_ping, args |-> <<fn, n>>,
                    ret |-> NULL]
        /\ Rest

NextMain ==
    \/ AddSectionMain
    \/ SetSectionMain
    \/ DeleteSectionMain
    \/ AddFieldMain
    \/ SetFieldMain
    \/ DeleteFieldMain

SpecMain == InitMain /\ [][NextMain]_vars

(***************************************************************************)
(* SpecShared: two records of one tree whose sections and fields are       *)
(* objects. setSection, addField and setField store the object they are    *)
(* given and getSection and getField hand out the object that is stored,   *)
(* so a caller can put one Section or one Field in two places. An object   *)
(* carries its identity in ref; a change made to an object shows wherever  *)
(* the object is stored. Identities are numbers without a meaning of their *)
(* own: after each call the objects are numbered by the first place that   *)
(* holds them                                                              *)
(***************************************************************************)
RECURSIVE SectionPlaces(_)
RECURSIVE FieldPlaces(_)

\* a Section object: the section with its identity
SectionObject(section, ref) ==
    [name |-> section.name, fields |-> section.fields, ref |-> ref]

\* a Field object: the field with its identity
FieldObject(f, ref) ==
    [name |-> f.name, isOptional |-> f.isOptional,
     defaultValue |-> f.defaultValue, description |-> f.description,
     attributes |-> f.attributes, ref |-> ref]

\* the Section objects the records of the tree hold
SectionsOf(t) ==
    UNION { { t[i].v.sections[j].v : j \in 1..Len(t[i].v.sections) } :
            i \in 1..Len(t) }

\* the Field objects the sections of the tree hold
FieldsOf(t) ==
    UNION { { section.fields[m].v : m \in 1..Len(section.fields) } :
            section \in SectionsOf(t) }

\* the identity of an object that "new" makes: one that no object in use has
FreshRef(used) ==
    CHOOSE n \in 1..(Cardinality(used) + 1) :
        n \notin used /\ \A m \in 1..(n - 1) : m \in used

\* the record with the section that the call made by new Section(name), in
\* addSection, given its identity
WithNewSection(r, ref) ==
    [r EXCEPT !.sections =
        [j \in 1..Len(r.sections) |->
            IF "ref" \in DOMAIN r.sections[j].v THEN r.sections[j]
            ELSE [k |-> r.sections[j].k,
                  v |-> SectionObject(r.sections[j].v, ref)]]]

\* the section as the record r holds it, when r holds the object
AsHeldBy(r, section) ==
    IF \E j \in 1..Len(r.sections) : r.sections[j].v.ref = section.ref
    THEN r.sections[CHOOSE j \in 1..Len(r.sections) :
                        r.sections[j].v.ref = section.ref].v
    ELSE section

\* this.fields as one Map for every Section of a name: the fault that would
\* make the sections of two records share their fields
SharedByName(t, i) ==
    [j \in 1..Len(t) |->
        IF j = i THEN t[j]
        ELSE [k |-> t[j].k,
              v |-> [t[j].v EXCEPT !.sections =
                        [m \in 1..Len(t[j].v.sections) |->
                            IF MapHas(t[i].v.sections, t[j].v.sections[m].k)
                            THEN [k |-> t[j].v.sections[m].k,
                                  v |-> [t[j].v.sections[m].v EXCEPT !.fields =
                                            MapGet(t[i].v.sections,
                                                   t[j].v.sections[m].k).fields]]
                            ELSE t[j].v.sections[m]]]]]

\* the tree after a call changed the record at i: this.fields of a Section is
\* one Map per object, so every record that holds a Section object of the
\* record at i sees the fields the call left in it
Shared(t, i) ==
    [j \in 1..Len(t) |->
        IF j = i THEN t[j]
        ELSE [k |-> t[j].k,
              v |-> [t[j].v EXCEPT !.sections =
                        [m \in 1..Len(t[j].v.sections) |->
                            [k |-> t[j].v.sections[m].k,
                             v |-> AsHeldBy(t[i].v, t[j].v.sections[m].v)]]]]]

\* the Section objects of the tree, place by place: record by record, in the
\* order of this.sections
SectionPlaces(t) ==
    IF t = <<>> THEN <<>>
    ELSE MapValues(t[1].v.sections) \o SectionPlaces(Tail(t))

\* the Field objects of the sections, place by place
FieldPlaces(sections) ==
    IF sections = <<>> THEN <<>>
    ELSE MapValues(sections[1].fields) \o FieldPlaces(Tail(sections))

\* the first place that holds the object
FirstPlace(places, ref) ==
    CHOOSE p \in 1..Len(places) :
        places[p].ref = ref /\ \A q \in 1..(p - 1) : places[q].ref # ref

\* the tree with every object numbered by its first place
Numbered(t) ==
    Bind(SectionPlaces(t), LAMBDA sections :
    Bind(FieldPlaces(sections), LAMBDA fields :
        [i \in 1..Len(t) |->
            [k |-> t[i].k,
             v |-> [t[i].v EXCEPT !.sections =
                [j \in 1..Len(t[i].v.sections) |->
                    [k |-> t[i].v.sections[j].k,
                     v |-> [name |-> t[i].v.sections[j].v.name,
                            ref |-> FirstPlace(sections, t[i].v.sections[j].v.ref),
                            fields |->
                        [m \in 1..Len(t[i].v.sections[j].v.fields) |->
                            [k |-> t[i].v.sections[j].v.fields[m].k,
                             v |-> [t[i].v.sections[j].v.fields[m].v EXCEPT !.ref =
                                      FirstPlace(fields, @)]]]]]]]]]))

\* the tree after a call on the record at i returned [err, val]
OnShared(t, i, res) ==
    Numbered(
        Shared(MapSet(t, t[i].k,
                      WithNewSection(res.val,
                                     FreshRef({ s.ref : s \in SectionsOf(t) }))),
               i))

\* the tree with the attributes of the Field object ref replaced wherever the
\* object is stored
WithAttributes(t, ref, attributes) ==
    [i \in 1..Len(t) |->
        [k |-> t[i].k,
         v |-> [t[i].v EXCEPT !.sections =
            [j \in 1..Len(t[i].v.sections) |->
                [k |-> t[i].v.sections[j].k,
                 v |-> [t[i].v.sections[j].v EXCEPT !.fields =
                    [m \in 1..Len(t[i].v.sections[j].v.fields) |->
                        IF t[i].v.sections[j].v.fields[m].v.ref # ref
                        THEN t[i].v.sections[j].v.fields[m]
                        ELSE [k |-> t[i].v.sections[j].v.fields[m].k,
                              v |-> [t[i].v.sections[j].v.fields[m].v
                                        EXCEPT !.attributes = attributes]]]]]]]]]

\* the sections a caller has to give: one made by new Section(name), or one
\* that a record of the tree hands out from getSection
GivableSections(t) ==
    { SectionObject(NewSection(n).val, FreshRef({ s.ref : s \in SectionsOf(t) })) :
        n \in MainSectionNames }
    \cup SectionsOf(t)

\* the fields a caller has to give: one made by new Field(name, ...), or one
\* that a section of the tree hands out from getField
GivableFields(t) ==
    { FieldObject(NewField(s_id, FALSE, NULL, NULL),
                  FreshRef({ f.ref : f \in FieldsOf(t) })) }
    \cup FieldsOf(t)

SharedValues == {<<"1">>}

\* the fields the tree holds, counted once per place
SharedCount(t) == SumSeq([i \in 1..Len(t) |-> FieldCount(t[i].v)])

\* the tree after addRecord("ping") and addRecord("order", null, "create"): each
\* constructor made the "main" section of its record
TwoRecords(b) ==
    Bind(TreeAddRecord(b, TreeAddRecord(b, EmptyMap, s_ping, NULL, NULL, NULL).val,
                       s_order, NULL, s_create, NULL).val,
         LAMBDA t : [i \in 1..Len(t) |->
                        [k |-> t[i].k, v |-> WithNewSection(t[i].v, i)]])

\* the copy in src: the copies in dist store and hand out the same objects
InitShared ==
    /\ build = "src"
    /\ tree = TwoRecords(build)
    /\ err = "none"
    /\ call = [op |-> "addRecord", target |-> NULL,
               args |-> <<s_order, NULL, s_create, NULL>>, ret |-> NULL]
    /\ IdleRest

\* tree.getRecords()[i].addSection(name)
AddSectionShared ==
    \E i \in 1..Len(tree), n \in MainSectionNames :
        /\ tree' = OnShared(tree, i, RecordAddSection(tree[i].v, n))
        /\ err' = RecordAddSection(tree[i].v, n).err
        /\ call' = [op |-> "addSection", target |-> tree[i].k, args |-> <<>>,
                    ret |-> NULL]
        /\ Rest

\* tree.getRecords()[i].setSection(section)
SetSectionShared ==
    \E i \in 1..Len(tree), section \in GivableSections(tree) :
        /\ tree' = OnShared(tree, i, [val |-> RecordSetSection(tree[i].v, section)])
        /\ SharedCount(tree') <= MaxFields
        /\ err' = "none"
        /\ call' = [op |-> "setSection", target |-> tree[i].k,
                    args |-> <<>>, ret |-> NULL]
        /\ Rest

\* tree.getRecords()[i].deleteSection(name)
DeleteSectionShared ==
    \E i \in 1..Len(tree), n \in MainSectionNames :
        /\ tree' = OnShared(tree, i, [val |-> RecordDeleteSection(tree[i].v, n)])
        /\ err' = "none"
        /\ call' = [op |-> "deleteSection", target |-> tree[i].k, args |-> <<>>,
                    ret |-> NULL]
        /\ Rest

\* tree.getRecords()[i].addField(field, sectionName)
AddFieldShared ==
    \E i \in 1..Len(tree), f \in GivableFields(tree), n \in MainSectionNames :
        /\ tree' = OnShared(tree, i, RecordAddField(tree[i].v, f, n))
        /\ SharedCount(tree') <= MaxFields
        /\ err' = RecordAddField(tree[i].v, f, n).err
        /\ call' = [op |-> "addField", target |-> tree[i].k, args |-> <<>>,
                    ret |-> NULL]
        /\ Rest

\* tree.getRecords()[i].setField(field, sectionName)
SetFieldShared ==
    \E i \in 1..Len(tree), f \in GivableFields(tree), n \in MainSectionNames :
        /\ tree' = OnShared(tree, i, RecordSetField(tree[i].v, f, n))
        /\ SharedCount(tree') <= MaxFields
        /\ err' = RecordSetField(tree[i].v, f, n).err
        /\ call' = [op |-> "setField", target |-> tree[i].k, args |-> <<>>,
                    ret |-> NULL]
        /\ Rest

\* tree.getRecords()[i].deleteField(name, sectionName)
DeleteFieldShared ==
    \E i \in 1..Len(tree), fn \in {s_id}, n \in MainSectionNames :
        /\ tree' = OnShared(tree, i, [val |-> RecordDeleteField(tree[i].v, fn, n)])
        /\ err' = "none"
        /\ call' = [op |-> "deleteField", target |-> tree[i].k, args |-> <<>>,
                    ret |-> NULL]
        /\ Rest

\* a field of the tree, field.setAttribute("x", value)
SetAttributeShared ==
    \E f \in FieldsOf(tree), v \in SharedValues :
        /\ tree' = WithAttributes(tree, f.ref,
                                  FieldSetAttribute(build, f, a_x, v).attributes)
        /\ err' = "none"
        /\ call' = [op |-> "setAttribute", target |-> f.ref, args |-> <<>>,
                    ret |-> NULL]
        /\ Rest

\* a field of the tree, field.deleteAttribute("x")
DeleteAttributeShared ==
    \E f \in FieldsOf(tree) :
        /\ tree' = WithAttributes(tree, f.ref,
                                  FieldDeleteAttribute(f, a_x).attributes)
        /\ err' = "none"
        /\ call' = [op |-> "deleteAttribute", target |-> f.ref, args |-> <<>>,
                    ret |-> NULL]
        /\ Rest

NextShared ==
    \/ AddSectionShared
    \/ SetSectionShared
    \/ DeleteSectionShared
    \/ AddFieldShared
    \/ SetFieldShared
    \/ DeleteFieldShared
    \/ SetAttributeShared
    \/ DeleteAttributeShared

SpecShared == InitShared /\ [][NextShared]_vars

(***************************************************************************)
(* The claims                                                              *)
(***************************************************************************)
\* the names a tree holds: the record keys in order and, per record, the
\* section names, each with the names of its fields
NamesOf(t) ==
    [i \in 1..Len(t) |->
        [fullName |-> t[i].k,
         sections |-> { [name |-> t[i].v.sections[j].k,
                         fields |-> { t[i].v.sections[j].v.fields[k].k :
                                        k \in 1..Len(t[i].v.sections[j].v.fields) }] :
                        j \in 1..Len(t[i].v.sections) }]]

\* C1: a tree built through the public operations, written by stringify and
\* read back by treeFromString, has the same record full names in the same
\* order, the same section names per record and the same field names per
\* section
C1_RoundTripNames ==
    LET back == treeFromString(build, TreeStringify(build, tree))
    IN  back.err = "none" /\ NamesOf(back.tree) = NamesOf(tree)

\* a tree of one record, ping, whose main section holds the field f
FieldTree(b, f) ==
    LET t == TreeAddRecord(b, EmptyMap, s_ping, NULL, NULL, NULL).val
    IN  MapSet(t, s_ping, RecordAddField(MapGet(t, s_ping), f, s_main).val)

\* C2: a field held in a tree comes back from treeFromString(stringify()) with
\* the same isOptional and defaultValue, whichever of the four shapes it has
C2_RoundTripOptionality ==
    LET back == treeFromString(build, TreeStringify(build, FieldTree(build, fld)))
    IN  /\ back.err = "none"
        /\ MapHas(back.tree, s_ping)
        /\ MapHas(MapGet(back.tree, s_ping).sections, s_main)
        /\ LET fields == MapGet(MapGet(back.tree, s_ping).sections, s_main).fields
           IN  /\ MapHas(fields, fld.name)
               /\ MapGet(fields, fld.name).isOptional = fld.isOptional
               /\ MapGet(fields, fld.name).defaultValue = fld.defaultValue

\* C3: the field parsed from field.stringify() has the same attribute names,
\* each with the same value: a flag stays a flag, a string stays that string,
\* the empty string included
C3_RoundTripAttributes ==
    LET back == parseField(build, FieldStringify(fld))
    IN  /\ back.err = "none"
        /\ { back.val.attributes[i] : i \in 1..Len(back.val.attributes) }
           = { fld.attributes[i] : i \in 1..Len(fld.attributes) }

\* C4: addRecord under a full name the tree holds, addSection under a name the
\* record holds and addField under a name the section holds each raise their
\* error and leave the records, sections and fields as they were
C4_DuplicateAtomic ==
    [][LET a == call'.args
           fullName == a[1]
                       \o (IF Truthy(a[2]) THEN <<".">> \o a[2] ELSE <<>>)
                       \o (IF Truthy(a[3]) THEN <<".">> \o a[3] ELSE <<>>)
           sections == MapGet(tree, call'.target).sections
       IN  /\ (call'.op = "addRecord" /\ MapHas(tree, fullName))
                  => (err' = "Record already exists" /\ tree' = tree)
           /\ (call'.op = "addSection" /\ MapHas(sections, a[1]))
                  => (err' = "Section already exists" /\ tree' = tree)
           /\ (call'.op = "addField" /\ MapHas(sections, a[2])
                  /\ MapHas(MapGet(sections, a[2]).fields, a[1].name))
                  => (err' = "Field already exists" /\ tree' = tree)]_vars

\* C4, its case: an addField was rejected for a name the section holds
C4_Witness == call.op = "addField" /\ err = "Field already exists"

\* C5: whatever addSection, setSection, deleteSection, addField, setField and
\* deleteField calls a record has had, it has a section named "main"
C5_AlwaysMain ==
    \A i \in 1..Len(tree) : RecordHasSection(tree[i].v, s_main)

\* C6: every key of tree.records is the full name of the record it maps to,
\* and no two entries hold the same full name
C6_KeysAreFullNames ==
    /\ \A i \in 1..Len(tree) : tree[i].k = getFullName(build, tree[i].v)
    /\ \A i, j \in 1..Len(tree) :
           i # j => /\ tree[i].k # tree[j].k
                    /\ getFullName(build, tree[i].v) # getFullName(build, tree[j].v)

\* C6, its case: setRecord has filed a record in a tree that holds two
C6_Witness == call.op = "setRecord" /\ err = "none" /\ Len(tree) = 2

\* C7: the verb of a record made by the constructor or by addRecord is the
\* classifier's result for the third argument
C7_VerbDerived ==
    (call.op \in {"addRecord", "setRecord"} /\ err = "none")
        => call.ret.verb = Classify(build, call.args[3])

\* C8: the classifier returns the result of the first rule that matches the
\* action name: null or empty, the prefixes get, set, add, delete, "list"
\* anywhere in any case, and check for the rest
C8_RuleOrder ==
    verbOut # Idle =>
        verbOut = IF verbIn = NULL \/ verbIn = <<>> THEN NULL
                  ELSE IF StartsWith(verbIn, v_get) THEN v_get
                  ELSE IF StartsWith(verbIn, v_set) THEN v_set
                  ELSE IF StartsWith(verbIn, v_add) THEN v_add
                  ELSE IF StartsWith(verbIn, v_delete) THEN v_delete
                  ELSE IF \E i \in 1..Len(verbIn) - 3 :
                              ToLower(SubSeq(verbIn, i, i + 3)) = v_list
                       THEN v_list
                  ELSE v_check

s_username == <<"u","s","e","r","n","a","m","e">>
s_password == <<"p","a","s","s","w","o","r","d">>
s_maxLength == <<"m","a","x","L","e","n","g","t","h">>
s_updates == <<"U","p","d","a","t","e","s"," ","a"," ","p","r","o","f","i","l","e">>

\* the parse of t_example has finished
ExampleParsed == ps.lines = Split(t_example, <<"\n">>) /\ ParseDone(ps)

\* what C9 says of the example apart from actionName and verb: one record,
\* user and profile, its description, and a main section of two fields
ExampleRest ==
    /\ ps.err = "none"
    /\ Len(ps.tree) = 1
    /\ ps.tree[1].v.entityName = s_user
    /\ ps.tree[1].v.propertyName = s_profile
    /\ ps.tree[1].v.description = s_updates
    /\ MapKeys(ps.tree[1].v.sections) = <<s_main>>
    /\ MapValues(MapGet(ps.tree[1].v.sections, s_main).fields)
       = << [name |-> s_username, isOptional |-> FALSE, defaultValue |-> NULL,
             description |-> NULL,
             attributes |-> <<[k |-> s_maxLength, v |-> <<"3", "2">>]>>],
            [name |-> s_password, isOptional |-> TRUE, defaultValue |-> NULL,
             description |-> NULL, attributes |-> EmptyMap] >>

\* C9 as the specification states it: the record of the example has
\* actionName "update" and the verb set
C9_ExampleAsStated ==
    ExampleParsed =>
        /\ ExampleRest
        /\ ps.tree[1].v.actionName = s_update
        /\ ps.tree[1].v.verb = v_set

\* C9: the example parses to one record, user and profile, described
\* "Updates a profile", whose main section holds username (required,
\* maxLength "32") and password (optional, no default); its third name part
\* is "update", kept as actionName with the verb check by the esm and bundle
\* copies and as the verb itself, without an actionName, by src/tree/record.js
C9_Example ==
    ExampleParsed =>
        /\ ExampleRest
        /\ getFullName(build, ps.tree[1].v) = ps.tree[1].k
        /\ ps.tree[1].k = <<"u","s","e","r",".","p","r","o","f","i","l","e",".","u","p","d","a","t","e">>
        /\ IF build = "src"
           THEN ps.tree[1].v.actionName = UNDEFINED /\ ps.tree[1].v.verb = s_update
           ELSE ps.tree[1].v.actionName = s_update /\ ps.tree[1].v.verb = v_check

\* C9, its case: the three lines of the example have been parsed into a record
C9_Witness == ExampleParsed /\ ps.err = "none" /\ Len(ps.tree) = 1

\* C10: getFullName is entityName, then "." and propertyName when there is
\* one, then "." and the third name part when there is one: the records made
\* from (user, profile, update), (order, null, create) and (ping) are named
\* user.profile.update, order.create and ping
C10_FullName ==
    (call.op \in {"addRecord", "setRecord"} /\ err = "none") =>
        LET a == call.args
            name == getFullName(build, call.ret)
        IN  /\ name = a[1]
                      \o (IF a[2] # NULL THEN <<".">> \o a[2] ELSE <<>>)
                      \o (IF a[3] # NULL THEN <<".">> \o a[3] ELSE <<>>)
            /\ (a[1] = s_user /\ a[2] = s_profile /\ a[3] = s_update)
                   => name = <<"u","s","e","r",".","p","r","o","f","i","l","e",".","u","p","d","a","t","e">>
            /\ (a[1] = s_order /\ a[2] = NULL /\ a[3] = s_create)
                   => name = <<"o","r","d","e","r",".","c","r","e","a","t","e">>
            /\ (a[1] = s_ping /\ a[2] = NULL /\ a[3] = NULL) => name = s_ping

\* C10, its case: addRecord has made the record of (order, null, create)
C10_Witness ==
    call.op = "addRecord" /\ err = "none" /\ call.args[1] = s_order
    /\ MapHas(tree, <<"o","r","d","e","r",".","c","r","e","a","t","e">>)

\* C11: making a Record fails whenever entityName is empty or holds
\* whitespace, or propertyName is not null and is empty or holds whitespace;
\* an addRecord that fails this way leaves the tree's records as they were
C11_NamesValidated ==
    [][(call'.op \in {"addRecord", "setRecord"}
        /\ \/ call'.args[1] = <<>>
           \/ HasWs(call'.args[1])
           \/ (call'.args[2] # NULL
               /\ (call'.args[2] = <<>> \/ HasWs(call'.args[2]))))
       => (err' # "none" /\ tree' = tree)]_vars

\* C12: a field stored in a section has a name that is not empty and holds
\* no whitespace, a field made with any other name being rejected
C12_FieldNamesValid ==
    \A i \in 1..Len(tree) : \A j \in 1..Len(tree[i].v.sections) :
        \A k \in 1..Len(tree[i].v.sections[j].v.fields) :
            /\ tree[i].v.sections[j].v.fields[k].v.name # <<>>
            /\ ~HasWs(tree[i].v.sections[j].v.fields[k].v.name)

\* C13: treeFromString throws at a record line whose full name the tree being
\* built holds, and at a field line of a record whose name the current section
\* holds, that opens a bracket and never closes it, that has nothing between
\* its brackets, or that starts with a character no name can start with
C13_ParseErrors ==
    [][LET line == ps.lines[ps.i]
           t == Trim(line)
           token == SubSeq(t, 1, RunEnd(t, 1, "[^\\s]") - 1)
           fieldLine == /\ t # <<>>
                        /\ ~isRecordDeclaration(line)
                        /\ ps.currentRecord # NULL
                        /\ ~isSectionDeclaration(t)
           fields == MapGet(MapGet(ps.tree, ps.currentRecord).sections,
                            ps.currentSectionName).fields
       IN  ~ParseDone(ps) =>
             /\ (t # <<>> /\ isRecordDeclaration(line) /\ MapHas(ps.tree, token))
                    => ps'.err # "none"
             /\ (fieldLine /\ parseField(build, t).err = "none"
                     /\ MapHas(fields, parseField(build, t).val.name))
                    => ps'.err # "none"
             /\ (fieldLine /\ t[1] = "[" /\ IndexOf(t, <<"]">>, 1) = 0)
                    => ps'.err # "none"
             /\ (fieldLine /\ StartsWith(t, <<"[", "]">>)) => ps'.err # "none"
             /\ (fieldLine /\ t[1] # "[" /\ ~IsNameChar(t[1]))
                    => ps'.err # "none"]_vars

\* C13, its case: the parse has stopped at a bracket that is never closed
C13_Witness ==
    /\ ps.err = "Invalid field"
    /\ StartsWith(Trim(ps.lines[ps.i]), <<"[">>)
    /\ IndexOf(ps.lines[ps.i], <<"]">>, 1) = 0

\* C14: treeFromString is fail-fast. Every pass of the loop starts with no
\* error raised and takes the next line; a pass either goes on to the line after
\* it or raises an error and keeps the tree as it was, and a field line that
\* parseField refuses raises one; nothing follows an error; and when an error
\* is raised at line i, the tree is the one the lines 1..i-1 give without error
C14_FailFast ==
    /\ [](ps.err # "none" =>
            /\ ps.i \in 1..Len(ps.lines)
            /\ LET pre == ParseRun(build, [ParseStart(<<>>) EXCEPT
                              !.lines = SubSeq(ps.lines, 1, ps.i - 1)])
               IN  pre.err = "none" /\ pre.tree = ps.tree)
    /\ [][/\ ps.err = "none"
          /\ ps.i <= Len(ps.lines)
          /\ ps'.lines = ps.lines
          /\ \/ ps'.err = "none" /\ ps'.i = ps.i + 1
             \/ ps'.err # "none" /\ ps'.i = ps.i /\ ps'.tree = ps.tree
          /\ LET line == ps.lines[ps.i]
                 t == Trim(line)
             IN  (/\ t # <<>>
                  /\ ~isRecordDeclaration(line)
                  /\ ps.currentRecord # NULL
                  /\ ~isSectionDeclaration(t)
                  /\ parseField(build, t).err # "none")
                 => ps'.err # "none"]_vars

\* C14, its case: an error raised after lines that passed and before lines
\* that are never read
C14_Witness ==
    /\ ps.err # "none"
    /\ ps.i > 1
    /\ ps.i < Len(ps.lines)
    /\ \E k \in (ps.i + 1)..Len(ps.lines) : Trim(ps.lines[k]) # <<>>

\* C15: after any sequence of setAttribute and deleteAttribute calls,
\* getAttribute(name) is null and hasAttribute(name) false for an attribute the
\* field does not hold, and getAttribute(name) is null and hasAttribute(name)
\* true for one it holds as a flag, set with no value or with an empty one
C15_FlagReadsNull ==
    \A n \in AttrNames :
        /\ ~MapHas(fld.attributes, n)
              => /\ FieldGetAttribute(build, fld, n) = NULL
                 /\ ~FieldHasAttribute(fld, n)
        /\ (\/ fld = FieldSetAttribute(build, fld, n, UNDEFINED)
            \/ fld = FieldSetAttribute(build, fld, n, <<>>))
              => /\ FieldGetAttribute(build, fld, n) = NULL
                 /\ FieldHasAttribute(fld, n)

OnlySet(before, after, key, val) ==
    /\ MapHas(after, key)
    /\ MapGet(after, key) = val
    /\ Len(after) = Len(before) + (IF MapHas(before, key) THEN 0 ELSE 1)
    /\ \A j \in 1..Len(before) :
          before[j].k # key =>
              /\ MapHas(after, before[j].k)
              /\ MapGet(after, before[j].k) = before[j].v

ListedNames(listing) == [i \in 1..Len(listing) |-> listing[i].name]

\* the place of key in the listing, 0 when it is not listed
Place(listing, key) ==
    IF \E i \in 1..Len(listing) : listing[i] = key
    THEN CHOOSE i \in 1..Len(listing) : listing[i] = key
    ELSE 0

\* the listing after names no key twice, names the keys that the listing
\* before named in the order it named them, and names a key that the listing
\* before did not name last
OrderKeptIn(before, after) ==
    /\ \A i, j \in 1..Len(after) : i < j => after[i] # after[j]
    /\ \A i, j \in 1..Len(after) :
          (i < j /\ Place(before, after[i]) > 0 /\ Place(before, after[j]) > 0)
              => Place(before, after[i]) < Place(before, after[j])
    /\ \A i \in 1..Len(after) : Place(before, after[i]) = 0 => i = Len(after)

OrderKept(before, after) ==
    Bind(before, LAMBDA b : Bind(after, LAMBDA a : OrderKeptIn(b, a)))

\* C18: listings keep the order of insertion. Over every add, set and delete
\* call, getRecordNames and getRecords, getSections of every record and
\* getFields of every section list the keys that stay in the order they had,
\* so an overwritten key keeps its place, and list a key that comes in last,
\* so a key deleted and added again is at the end
C18_InsertionOrder ==
    [][/\ OrderKept(TreeGetRecordNames(tree), TreeGetRecordNames(tree'))
       /\ TreeGetRecordNames(tree')
            = [i \in 1..Len(tree') |-> getFullName(build, TreeGetRecords(tree')[i])]
       /\ \A i \in 1..Len(tree), k \in 1..Len(tree') :
            (tree'[k].k = tree[i].k /\ tree'[k].v # tree[i].v) =>
              /\ OrderKept(ListedNames(RecordGetSections(tree[i].v)),
                           ListedNames(RecordGetSections(tree'[k].v)))
              /\ \A j \in 1..Len(tree[i].v.sections),
                    l \in 1..Len(tree'[k].v.sections) :
                    tree'[k].v.sections[l].k = tree[i].v.sections[j].k =>
                        OrderKept(
                          ListedNames(SectionGetFields(tree[i].v.sections[j].v)),
                          ListedNames(SectionGetFields(tree'[k].v.sections[l].v)))
      ]_vars

\* C18, its case: "main", the first section of every record, is listed after
\* another section, having been deleted and added again
C18_Witness ==
    /\ call.op = "addSection"
    /\ call.args = <<s_main>>
    /\ err = "none"
    /\ ListedNames(RecordGetSections(MapGet(tree, call.target))) = <<s_ret, s_main>>

\* C19: a record line whose first token has the segments s1..sn between its
\* dots gives a record with entityName s1, with propertyName and actionName
\* null when n = 1, with actionName sn and propertyName s2..s(n-1) joined by "."
\* when n >= 2, null when n = 2, and with the token as its full name
C19_NameSegments ==
    [][LET line == ps.lines[ps.i]
           t == Trim(line)
           token == SubSeq(t, 1, RunEnd(t, 1, "[^\\s]") - 1)
           s == Split(token, <<".">>)
           n == Len(s)
           record == MapGet(ps'.tree, ps'.currentRecord)
       IN  (t # <<>> /\ isRecordDeclaration(line) /\ ps'.err = "none") =>
             /\ record.entityName = s[1]
             /\ n = 1 => record.propertyName = NULL /\ record.actionName = NULL
             /\ n = 2 => record.propertyName = NULL
             /\ n >= 2 => record.actionName = s[n]
             /\ n > 2 => record.propertyName = Join(SubSeq(s, 2, n - 1), <<".">>)
             /\ getFullName(build, record) = token]_vars

\* C20: the description of the record of a record line is the text after the
\* first "//" of the line, trimmed, with every later "//" in it, and null when
\* the line has no "//"
C20_RecordDescription ==
    [][LET line == ps.lines[ps.i]
           t == Trim(line)
           at == IndexOf(t, <<"/", "/">>, 1)
           record == MapGet(ps'.tree, ps'.currentRecord)
       IN  (t # <<>> /\ isRecordDeclaration(line) /\ ps'.err = "none") =>
             record.description = IF at = 0 THEN NULL ELSE Trim(From(t, at + 2))
      ]_vars

\* C21: a section header line of treeFromString always makes a section. When
\* the current record holds a section of the name, "main" included, the parse
\* throws; otherwise the record gets a new, empty section of the name, last, and
\* the name becomes the current section, whatever other records hold
C21_HeaderMakesSection ==
    [][LET line == ps.lines[ps.i]
           t == Trim(line)
           name == parseSectionDeclaration(t)
           old == MapGet(ps.tree, ps.currentRecord).sections
       IN  (/\ t # <<>>
            /\ ~isRecordDeclaration(line)
            /\ ps.currentRecord # NULL
            /\ isSectionDeclaration(t)
            /\ name # NULL) =>
              IF MapHas(old, name)
              THEN ps'.err # "none" /\ ps'.tree = ps.tree
              ELSE /\ ps'.err = "none"
                   /\ ps'.currentSectionName = name
                   /\ MapGet(ps'.tree, ps.currentRecord).sections
                        = Append(old, [k |-> name,
                                       v |-> [name |-> name, fields |-> EmptyMap]])
      ]_vars

\* C21, its case: the parse has stopped at a header "@main" under a record
C21_Witness ==
    /\ ps.err = "Section already exists"
    /\ Trim(ps.lines[ps.i]) = <<"@">> \o s_main

\* the lines from the first record line on
RECURSIVE FromFirstRecord(_)
FromFirstRecord(lines) ==
    IF lines = <<>> THEN <<>>
    ELSE IF Trim(lines[1]) # <<>> /\ isRecordDeclaration(lines[1]) THEN lines
    ELSE FromFirstRecord(Tail(lines))

\* what treeFromString gives for the lines: [err, tree]
ParsedLines(b, lines) ==
    Bind(ParseRun(b, [ParseStart(<<>>) EXCEPT !.lines = lines]), LAMBDA final :
        [err |-> final.err, tree |-> final.tree])

\* C22: the section headers and field lines ahead of the first record line are
\* skipped: a pass over one raises no error and changes nothing but the line
\* count, malformed or not, and treeFromString gives for the input what it
\* gives for the input without them
C22_SkippedBeforeRecord ==
    /\ [](ParsedLines(build, ps.lines)
            = ParsedLines(build, FromFirstRecord(ps.lines)))
    /\ [][(ps.currentRecord = NULL /\ ~isRecordDeclaration(ps.lines[ps.i]))
            => ps' = [ps EXCEPT !.i = ps.i + 1]]_vars

\* C22, its case: a parse that ended well on an input with a malformed field
\* line ahead of its first record line
C22_Witness ==
    /\ ParseDone(ps)
    /\ ps.err = "none"
    /\ ps.tree # EmptyMap
    /\ \E k \in 1..Len(ps.lines) :
          /\ Len(FromFirstRecord(ps.lines)) <= Len(ps.lines) - k
          /\ Trim(ps.lines[k]) # <<>>
          /\ ~isSectionDeclaration(Trim(ps.lines[k]))
          /\ parseField(build, Trim(ps.lines[k])).err # "none"

\* the index of the last record line among the first n lines, 0 when none
RECURSIVE LastRecordLine(_, _)
LastRecordLine(lines, n) ==
    IF n = 0 THEN 0
    ELSE IF Trim(lines[n]) # <<>> /\ isRecordDeclaration(lines[n]) THEN n
    ELSE LastRecordLine(lines, n - 1)

\* the name of the last section header among the lines from + 1 .. n, "main"
\* when none of them is a header with a name
RECURSIVE LastHeader(_, _, _)
LastHeader(lines, from, n) ==
    IF n <= from THEN s_main
    ELSE IF /\ isSectionDeclaration(Trim(lines[n]))
            /\ parseSectionDeclaration(Trim(lines[n])) # NULL
    THEN parseSectionDeclaration(Trim(lines[n]))
    ELSE LastHeader(lines, from, n - 1)

\* C23: a field line that is taken puts its field, last, in the record declared
\* last, in the section of the last header since that record's line, "main"
\* when there was none, and changes nothing else; so a header of one record
\* never routes a field of the next
C23_FieldRouting ==
    [][LET line == ps.lines[ps.i]
           t == Trim(line)
           at == LastRecordLine(ps.lines, ps.i - 1)
           name == LastHeader(ps.lines, at, ps.i - 1)
           key == ps.tree[Len(ps.tree)].k
           record == ps.tree[Len(ps.tree)].v
           f == parseField(build, t).val
       IN  (/\ t # <<>>
            /\ ~isRecordDeclaration(line)
            /\ at > 0
            /\ ~isSectionDeclaration(t)
            /\ ps'.err = "none") =>
              /\ MapHas(record.sections, name)
              /\ ps'.tree =
                   MapSet(ps.tree, key,
                     [record EXCEPT !.sections =
                        MapSet(record.sections, name,
                          [name |-> name,
                           fields |-> Append(MapGet(record.sections, name).fields,
                                             [k |-> f.name, v |-> f])])])
      ]_vars

\* C23, its case: the first record has a field under its header, and the field
\* of the second record, which has no header, is in "main"
C23_Witness ==
    /\ ps.err = "none"
    /\ Len(ps.tree) = 2
    /\ MapHas(ps.tree[1].v.sections, s_ret)
    /\ MapGet(ps.tree[1].v.sections, s_ret).fields # EmptyMap
    /\ ~MapHas(ps.tree[2].v.sections, s_ret)
    /\ MapGet(ps.tree[2].v.sections, s_main).fields # EmptyMap

\* a value as written in a line: a quoted text with no quote or backslash
\* inside, or a text with no whitespace that starts with no quote
Written(raw) ==
    /\ raw # <<>>
    /\ \/ /\ Len(raw) >= 2
          /\ raw[1] \in {"\"", "'"}
          /\ raw[Len(raw)] = raw[1]
          /\ \A i \in 2..(Len(raw) - 1) : raw[i] \notin {"\"", "'", "\\"}
       \/ /\ raw[1] \notin {"\"", "'"}
          /\ ~HasWs(raw)

\* the value without the quotes around it
Unquoted(raw) ==
    IF raw[1] \in {"\"", "'"} THEN SubSeq(raw, 2, Len(raw) - 1) ELSE raw

\* C24: the shapes of a field line. "name ..." gives a required field with no
\* default; "name? ..." an optional one with no default; "[name=value] ..." an
\* optional one whose default is the value without its quotes; "[name] ..." an
\* optional one with no default
C24_FieldShapes ==
    [][LET line == ps.lines[ps.i]
           t == Trim(line)
           fields == MapGet(MapGet(ps'.tree, ps.currentRecord).sections,
                            ps.currentSectionName).fields
           f == fields[Len(fields)].v
           ne == RunEnd(t, 1, "[\\w_\\.]")
           end == IndexOf(t, <<"]">>, 1)
           inner == SubSeq(t, 2, end - 1)
           eq == IndexOf(inner, <<"=">>, 1)
       IN  (/\ t # <<>>
            /\ ~isRecordDeclaration(line)
            /\ ps.currentRecord # NULL
            /\ ~isSectionDeclaration(t)
            /\ ps'.err = "none") =>
              /\ ne > 1 =>
                   /\ f.name = SubSeq(t, 1, ne - 1)
                   /\ f.isOptional = (ne <= Len(t) /\ t[ne] = "?")
                   /\ f.defaultValue = NULL
              /\ (t[1] = "[" /\ eq = 0 /\ inner # <<>> /\ ~HasWs(inner)) =>
                   /\ f.name = inner
                   /\ f.isOptional
                   /\ f.defaultValue = NULL
              /\ (/\ t[1] = "["
                  /\ eq > 1
                  /\ ~HasWs(SubSeq(inner, 1, eq - 1))
                  /\ Written(From(inner, eq + 1))) =>
                   /\ f.name = SubSeq(inner, 1, eq - 1)
                   /\ f.isOptional
                   /\ f.defaultValue = Unquoted(From(inner, eq + 1))
      ]_vars

\* the attribute tail of a field line, trimmed
TailOf(t) ==
    IF t[1] = "[" THEN Trim(From(t, IndexOf(t, <<"]">>, 1) + 1))
    ELSE LET ne == RunEnd(t, 1, "[\\w_\\.]")
         IN  Trim(From(t, ne + (IF ne <= Len(t) /\ t[ne] = "?" THEN 1 ELSE 0)))

\* the field a field line has just added to the current section
AddedField(before, after) ==
    LET fields == MapGet(MapGet(after.tree, before.currentRecord).sections,
                         before.currentSectionName).fields
    IN  fields[Len(fields)].v

\* a field line under a record, taken without error
FieldLineTaken(before, after) ==
    /\ Trim(before.lines[before.i]) # <<>>
    /\ ~isRecordDeclaration(before.lines[before.i])
    /\ before.currentRecord # NULL
    /\ ~isSectionDeclaration(Trim(before.lines[before.i]))
    /\ after.err = "none"

\* the place of the first word of the tail, between whitespace, that begins
\* with "//"; 0 when there is none
RECURSIVE SlashWord(_, _)
SlashWord(tail, p) ==
    IF p + 1 > Len(tail) THEN 0
    ELSE IF /\ tail[p] = "/" /\ tail[p + 1] = "/"
            /\ (p = 1 \/ IsWs(tail[p - 1]))
    THEN p
    ELSE SlashWord(tail, p + 1)

\* the description and the attributes the tail gives when it ends at place at
TailEndsAt(f, tail, at) ==
    /\ f.description = IF at = 0 \/ Trim(From(tail, at + 2)) = <<>> THEN NULL
                       ELSE Trim(From(tail, at + 2))
    /\ at > 0 => \A j \in 1..Len(f.attributes) :
                    IndexOf(SubSeq(tail, 1, at - 1), f.attributes[j].k, 1) > 0

RECURSIVE Matches(_, _)
Matches(tail, li) ==
    LET p == RunEnd(tail, li, "[\\s=]")
    IN  IF p > Len(tail) THEN <<>>
        ELSE <<AttrMatch(tail, p)>> \o Matches(tail, AttrMatch(tail, p).end)

\* the index of the first match whose name begins with "//"; 0 when none
SlashMatch(ms) ==
    IF \E j \in 1..Len(ms) : StartsWith(ms[j].name, <<"/", "/">>)
    THEN CHOOSE j \in 1..Len(ms) :
            /\ StartsWith(ms[j].name, <<"/", "/">>)
            /\ \A l \in 1..(j - 1) : ~StartsWith(ms[l].name, <<"/", "/">>)
    ELSE 0

RECURSIVE FirstOccurrences(_)
FirstOccurrences(q) ==
    IF q = <<>> THEN <<>>
    ELSE LET front == FirstOccurrences(SubSeq(q, 1, Len(q) - 1))
         IN  IF \E i \in 1..Len(front) : front[i] = q[Len(q)] THEN front
             ELSE Append(front, q[Len(q)])

\* C26: the attributes of a parsed field are held, listed and written by
\* stringify in the order of their names on the field line, whatever the
\* names, names made of digits included; a name that occurs twice has the later
\* value
C26_AttributeOrder ==
    [][FieldLineTaken(ps, ps') =>
          LET f == AddedField(ps, ps')
              tail == TailOf(Trim(ps.lines[ps.i]))
              ms == Matches(tail, 1)
              stop == SlashMatch(ms)
              last == IF stop = 0 THEN Len(ms) ELSE stop - 1
              names == FirstOccurrences([j \in 1..last |-> ms[j].name])
          IN  /\ MapKeys(f.attributes) = names
              /\ \A j \in 1..last :
                    (\A l \in (j + 1)..last : ms[l].name # ms[j].name) =>
                        FieldGetAttribute(build, f, ms[j].name)
                          \in {AttrValue(ms[j].raw),
                               IF AttrValue(ms[j].raw) = NULL THEN <<>>
                               ELSE AttrValue(ms[j].raw)}
              /\ AttrsToString(f)
                   = Join([j \in 1..Len(names) |->
                             AttrToString([k |-> names[j],
                                           v |-> MapGet(f.attributes, names[j])])],
                          <<" ">>)]_vars

\* C27: after any sequence of addSection, setSection, deleteSection, addField,
\* setField and deleteField on a record, the record holds a section "main" and
\* it is the object in mainSection
C27_MainSectionIsMain ==
    /\ MapHas(tree[1].v.sections, s_main)
    /\ IsMainSection(MapGet(tree[1].v.sections, s_main))

\* the parts that are neither null nor empty, joined with "."
JoinedName(entityName, propertyName, third) ==
    Join(SelectSeq(<<entityName, propertyName, third>>,
                   LAMBDA part : part \notin {NULL, UNDEFINED, <<>>}), <<".">>)

\* C28: Tree.addRecord of a record that can be made is rejected exactly when
\* the tree holds a record under the string its parts join to, whatever parts
\* that record was made of; a rejected call changes nothing, an accepted one
\* puts the record under that string
C28_FullNameCollision ==
    [][call'.op = "addRecord" =>
        LET made == NewRecord(build, call'.args[1], call'.args[2], call'.args[3],
                              call'.args[4])
            fullName == JoinedName(call'.args[1], call'.args[2], call'.args[3])
        IN  made.err = "none" =>
              IF MapHas(tree, fullName)
              THEN err' = "Record already exists" /\ tree' = tree
              ELSE err' = "none" /\ tree' = Append(tree, [k |-> fullName,
                                                          v |-> made.val])]_vars

\* C28, its case: addRecord("user", "update") is rejected by the record that
\* addRecord("user", null, "update") made
C28_Witness ==
    /\ call.op = "addRecord"
    /\ call.args = <<s_user, s_update, NULL, NULL>>
    /\ err = "Record already exists"
    /\ MapHas(tree, s_user_update)
    /\ MapGet(tree, s_user_update).propertyName = NULL
    /\ MapGet(tree, s_user_update).entityName = s_user

\* the sections of a record with their fields and attributes, identities
\* left out
Contents(r) ==
    [j \in 1..Len(r.sections) |->
        [k |-> r.sections[j].k, name |-> r.sections[j].v.name,
         fields |-> [m \in 1..Len(r.sections[j].v.fields) |->
                        [k |-> r.sections[j].v.fields[m].k,
                         v |-> [r.sections[j].v.fields[m].v EXCEPT !.ref = 0]]]]]

\* the records hold a Section object in common
ShareSection(r1, r2) ==
    \E j1 \in 1..Len(r1.sections), j2 \in 1..Len(r2.sections) :
        r1.sections[j1].v.ref = r2.sections[j2].v.ref

\* the record holds the Field object
HoldsField(r, ref) ==
    \E j \in 1..Len(r.sections) : \E m \in 1..Len(r.sections[j].v.fields) :
        r.sections[j].v.fields[m].v.ref = ref

RecordCalls ==
    {"addSection", "setSection", "deleteSection", "addField", "setField",
     "deleteField"}

AttributeCalls == {"setAttribute", "deleteAttribute"}

\* a call on a field leaves the other Field objects as they were
OtherFieldsKept ==
    call'.op \in AttributeCalls =>
        /\ MapKeys(tree') = MapKeys(tree)
        /\ \A f \in FieldsOf(tree) : f.ref # call'.target => f \in FieldsOf(tree')

C30_Terminates ==
    /\ <>ParseDone(ps)
    /\ [][ps'.lines = ps.lines
            /\ \/ ps'.err # "none" /\ ps'.i = ps.i
               \/ ps'.err = "none" /\ ps'.i = ps.i + 1]_vars
    /\ [](\A k \in 1..Len(ps.lines) :
            \A p \in 1..Len(Trim(ps.lines[k])) :
                ~IsWs(Trim(ps.lines[k])[p]) /\ Trim(ps.lines[k])[p] # "="
                => /\ AttrMatch(Trim(ps.lines[k]), p).end > p
                   /\ AttrMatch(Trim(ps.lines[k]), p).end
                        <= Len(Trim(ps.lines[k])) + 1)

\* C30, its case: the loop took every line of an input of four lines or more
\* and left a field with two attributes, so the scanner matched twice in a line
C30_Witness ==
    /\ ParseDone(ps)
    /\ ps.err = "none"
    /\ ps.i = Len(ps.lines) + 1
    /\ Len(ps.lines) >= 4
    /\ \E i \in 1..Len(ps.tree) :
         \E j \in 1..Len(ps.tree[i].v.sections) :
           \E m \in 1..Len(ps.tree[i].v.sections[j].v.fields) :
             Len(ps.tree[i].v.sections[j].v.fields[m].v.attributes) >= 2

====
